---- MODULE Spec2Model ----
(***************************************************************************)
(* TaskExecutor: the executor of top-level tasks (RunnableTask), their     *)
(* subtask groups (SubTaskGroup) and subtasks (RunnableSubTask), from      *)
(* managed/src/main/java/com/yugabyte/yw/commissioner/TaskExecutor.java.   *)
(*                                                                         *)
(* Threads of the model: one worker per submitted RunnableTask (it runs    *)
(* AbstractRunnableTask.run, the task body that attaches the groups, and   *)
(* runSubTasks with the round-robin wait), one worker per submitted        *)
(* RunnableSubTask, the callers of abort(taskUUID), and the clock.         *)
(* Every synchronized write to a TaskInfo is one step.                     *)
(***************************************************************************)
EXTENDS Integers, Sequences, FiniteSets, TLC

\* ------------------------------------------------------------ bounds
NumTasks == 2
MaxGroups == 2
MaxMembers == 2
\* The members of the one group of a task whose subtasks all succeed.
HappyMembers == 3
\* The clock runs from 0 to MaxTime seconds in steps of ClockStep seconds.
MaxTime == 120
ClockStep == 60

\* ------------------------------------------------- program constants
\* Duration.ofSeconds(60): the wait since the abort call before subtasks are cancelled.
defaultAbortTaskTimeout == 60
\* The null Instant of RunnableTask.abortTime.
NoInstant == -1

Tasks == 1 .. NumTasks
GroupIds == 1 .. MaxGroups
MemberIds == 1 .. (IF HappyMembers > MaxMembers THEN HappyMembers ELSE MaxMembers)
SubTasks == Tasks \X GroupIds \X MemberIds
\* The two client threads that call abort.
AbortCallers == {1, 2}
\* The two threads that call shutdown: the stop hook and another caller.
ShutdownCallers == {1, 2}

\* TaskInfo.State, as far as TaskExecutor names its values. State.Abort (written by
\* abort) and State.Aborted (written on cancellation) are two values of the enum.
Created == "Created"
Initializing == "Initializing"
Running == "Running"
Success == "Success"
Failure == "Failure"
Abort == "Abort"
Aborted == "Aborted"
State == {Created, Initializing, Running, Success, Failure, Abort, Aborted}
\* TaskInfo.ERROR_STATES
ERROR_STATES == {Failure, Aborted}

VARIABLES
  now,              \* Instant.now(), in seconds
  plan,             \* the author's code: per task, per group, ignoreErrors and the members added
  abortable,        \* per task: the @Abortable marker of the task's class
  runnableTasks,    \* TaskExecutor.runnableTasks: the keys of the live-tasks map
  taskState,        \* RunnableTask.taskInfo.taskState
  abortTime,        \* RunnableTask.abortTime
  pc,               \* position of the worker of each RunnableTask
  subTaskGroups,    \* RunnableTask.subTaskGroups: the queue of attached groups
  subTaskPosition,  \* RunnableTask.subTaskPosition
  grp,              \* runSubTasks: index of the group of the for loop
  member,           \* submitSubTasks: index of the member of the for loop
  anyRe,            \* runSubTasks: anyRe != null
  runnableSubTasks, \* waitForSubTasks: the list of the subtasks waited for
  iter,             \* waitForSubTasks: position of the iterator in runnableSubTasks
  anyEx,            \* waitForSubTasks: the kind of anyEx
  numTasksCompleted,\* SubTaskGroup.numTasksCompleted
  subTaskState,     \* RunnableSubTask.taskInfo.taskState
  future,           \* RunnableSubTask.future
  spc,              \* position of the worker of each RunnableSubTask
  apc,              \* position of each caller of abort
  target,           \* abort: the taskUUID the caller passed
  seen,             \* abort: the abort time the caller read in its null test
  swapped,          \* abort: what compareAndSetTaskState returned
  result,           \* abort: what the call returned
  waitStartTime,    \* waitForSubTasks: waitStartTime
  taskFuture,       \* RunnableTask.future
  submitted,        \* submit: what the call returned to its caller
  isShutdown,       \* TaskExecutor.isShutdown
  sealed,           \* runnableTasks.sealMap() was called
  hpc,              \* position of each caller of shutdown
  late,             \* shutdown: isShutdown was already set when the caller tested it
  wrote,            \* shutdown: the callers that called sealMap or setAbortTime
  hres,             \* shutdown: what the call returned
  wpc,              \* position of the caller of waitForTask
  wtarget,          \* waitForTask: the taskUUID the caller passed
  wres,             \* waitForTask: how the call ended
  taskExecutionListener, \* RunnableTask.taskExecutionListener and what its callbacks do
  replays,          \* the author's code: how often the body calls reset() and runs again
  rejectedByPool,   \* the subtasks for which ExecutorService.submit throws
  calls,            \* per task: the calls of beforeTask and afterTask, in order
  terminated,       \* the tasks and subtasks whose task.terminate() was called
  waitMetric,       \* COMMISSIONER_TASK_WAITING_SEC: the number of observations
  stateMetric,      \* COMMISSIONER_TASK_EXECUTION_SEC: the observations per state label
  position,         \* taskInfo.position of the records that have one written
  parentUuid,       \* taskInfo.parentUuid of the records that have one written
  thrown,           \* runSubTasks: the exception on its way out of the try block
  replayed,         \* the author's code: the calls of reset() so far
  callsAtReset,     \* the length of calls at the last reset()
  taskScheduledTime, \* RunnableSubTask.taskScheduledTime
  taskStartTime,     \* RunnableSubTask.taskStartTime
  taskCompletionTime \* RunnableSubTask.taskCompletionTime
vars == <<now, plan, abortable, runnableTasks, taskState, abortTime, pc, subTaskGroups,
          subTaskPosition, grp, member, anyRe, runnableSubTasks, iter, anyEx,
          numTasksCompleted, subTaskState, future, spc, apc, target, seen, swapped, result,
          waitStartTime, taskFuture, submitted, isShutdown, sealed, hpc, late, wrote, hres,
          wpc, wtarget, wres, taskExecutionListener, replays, rejectedByPool, calls,
          terminated, waitMetric, stateMetric, position, parentUuid, thrown, replayed,
          callsAtReset, taskScheduledTime, taskStartTime, taskCompletionTime>>

taskVars == <<runnableTasks, taskState, abortTime, pc, subTaskGroups, subTaskPosition,
              grp, member, anyRe, runnableSubTasks, iter, anyEx, numTasksCompleted>>
subVars == <<subTaskState, future, spc>>
abortVars == <<apc, target, seen, swapped, result>>
cfgVars == <<plan, abortable, taskExecutionListener, replays, rejectedByPool>>
shutdownVars == <<isShutdown, sealed, hpc, late, wrote, hres>>
waiterVars == <<wpc, wtarget, wres>>
\* The listener calls, the hooks, the metrics and the records of the Task Store, and the
\* progress of the author's code.
\* The Instants of the subtasks: the three fields of a top-level task are written by the
\* same statements and are not kept.
timeVars == <<taskScheduledTime, taskStartTime, taskCompletionTime>>
obsVars == <<calls, terminated, waitMetric, stateMetric, position, parentUuid, thrown,
             replayed, callsAtReset, timeVars>>
\* What the steps of abort leave alone.
callVars == <<waitStartTime, taskFuture, submitted, shutdownVars, waiterVars, obsVars>>

\* The members the author added to group g of task t (SubTaskGroup.subTasks).
subTasks(t, g) == {<<t, g, i>> : i \in 1 .. plan[t][g].size}
\* SubTaskGroup.getSubTaskCount
getSubTaskCount(t, g) == plan[t][g].size
ignoreErrors(t, g) == plan[t][g].ignoreErrors
Members == UNION {subTasks(t, g) : t \in Tasks, g \in GroupIds}
parentRunnableTask(s) == s[1]
groupOf(s) == s[2]
\* The records: a top-level task t is written <<t, 0, 0>>, a subtask <<t, g, i>>.
taskId(t) == <<t, 0, 0>>
Ids == SubTasks \cup {taskId(t) : t \in Tasks}

\* What a TaskExecutionListener does: it returns from every callback ("quiet"), or, at
\* the callback for the record `on`, its beforeTask throws CancellationException
\* ("beforeCancel") or another exception ("beforeThrows"), or its afterTask throws
\* ("afterThrows"). A task without a listener has set = FALSE.
NoListener == [set |-> FALSE, does |-> "quiet", on |-> <<0, 0, 0>>]
QuietListener == [set |-> TRUE, does |-> "quiet", on |-> <<0, 0, 0>>]
Listeners(t) == {NoListener, QuietListener} \cup
                [set : {TRUE}, does : {"beforeCancel", "beforeThrows", "afterThrows"},
                 on : {taskId(t)} \cup {x \in SubTasks : x[1] = t}]

\* RunnableSubTask.getTimeLimit() and the @Abortable marker of the members of a group.
timeLimit(s) == plan[s[1]][s[2]].timeLimit
isSubTaskAbortable(s) == plan[s[1]][s[2]].abortable

\* The time limits of subtasks: Duration.ZERO (no limit) or as long as the abort timeout.
TimeLimits == {0, defaultAbortTaskTimeout}

\* The plans of an author: for each group, ignoreErrors, the number of members added
\* before the group is attached, their time limit and their @Abortable marker (the
\* fields of a group without members are never read).
AllPlans == {p \in [GroupIds -> [ignoreErrors : BOOLEAN, size : 0 .. MaxMembers,
                                 timeLimit : TimeLimits, abortable : BOOLEAN]] :
               \A g \in GroupIds :
                 p[g].size = 0 => ~p[g].ignoreErrors /\ p[g].timeLimit = 0 /\ ~p[g].abortable}

\* The plans whose subtasks have no time limit and no marker.
Plans == {p \in AllPlans : \A g \in GroupIds : p[g].timeLimit = 0 /\ ~p[g].abortable}

\* The state after construction of the TaskExecutor and of the RunnableTasks of `tasks`
\* by createRunnableTask: the map is empty, every TaskInfo is Created, no abort time.
Constructed(tasks) ==
  /\ now = 0
  /\ abortable \in [Tasks -> BOOLEAN]
  /\ \A t \in Tasks \ tasks : ~abortable[t]
  /\ runnableTasks = {}
  /\ taskState = [t \in Tasks |-> Created]
  /\ abortTime = [t \in Tasks |-> NoInstant]
  /\ pc = [t \in Tasks |-> IF t \in tasks THEN "new" ELSE "absent"]
  /\ subTaskGroups = [t \in Tasks |-> <<>>]
  /\ subTaskPosition = [t \in Tasks |-> 0]
  /\ grp = [t \in Tasks |-> 0]
  /\ member = [t \in Tasks |-> 0]
  /\ anyRe = [t \in Tasks |-> FALSE]
  /\ runnableSubTasks = [t \in Tasks |-> <<>>]
  /\ iter = [t \in Tasks |-> 0]
  /\ anyEx = [t \in Tasks |-> "null"]
  /\ numTasksCompleted = [t \in Tasks |-> [g \in GroupIds |-> 0]]
  /\ subTaskState = [s \in SubTasks |-> Created]
  /\ future = [s \in SubTasks |-> "null"]
  /\ spc = [s \in SubTasks |-> "new"]
  /\ apc = [c \in AbortCallers |-> "idle"]
  /\ target = [c \in AbortCallers |-> 0]
  /\ seen = [c \in AbortCallers |-> NoInstant]
  /\ swapped = [c \in AbortCallers |-> FALSE]
  /\ result = [c \in AbortCallers |-> "none"]
  /\ waitStartTime = [t \in Tasks |-> NoInstant]
  /\ taskFuture = [t \in Tasks |-> "null"]
  /\ submitted = [t \in Tasks |-> "none"]
  /\ isShutdown = FALSE
  /\ sealed = FALSE
  /\ hpc = [c \in ShutdownCallers |-> "idle"]
  /\ late = [c \in ShutdownCallers |-> FALSE]
  /\ wrote = {}
  /\ hres = [c \in ShutdownCallers |-> "none"]
  /\ wpc = "idle"
  /\ wtarget = 0
  /\ wres = "none"
  /\ calls = [t \in Tasks |-> <<>>]
  /\ terminated = {}
  /\ waitMetric = 0
  /\ stateMetric = [l \in State |-> 0]
  /\ position = {<<taskId(t), -1>> : t \in tasks}
  /\ parentUuid = {}
  /\ thrown = [t \in Tasks |-> "null"]
  /\ replayed = [t \in Tasks |-> 0]
  /\ callsAtReset = [t \in Tasks |-> 0]
  /\ taskScheduledTime = [s \in SubTasks |-> NoInstant]
  /\ taskStartTime = [s \in SubTasks |-> NoInstant]
  /\ taskCompletionTime = [s \in SubTasks |-> NoInstant]

\* No listener is set, the body of a task runs its groups once, and the pools take
\* every subtask.
Plain ==
  /\ taskExecutionListener = [t \in Tasks |-> NoListener]
  /\ replays = [t \in Tasks |-> 0]
  /\ rejectedByPool = {}

EmptyPlan == [g \in GroupIds |-> [ignoreErrors |-> FALSE, size |-> 0,
                                  timeLimit |-> 0, abortable |-> FALSE]]

\* One task whose groups have at most one member each; abort may be called on it.
Init ==
  /\ Constructed({1})
  /\ Plain
  /\ \E p \in {q \in Plans : \A g \in GroupIds : q[g].size <= 1} :
       plan = [t \in Tasks |-> IF t = 1 THEN p ELSE EmptyPlan]

\* One task with groups of up to MaxMembers members, at most one of the groups with more
\* than one member; abort is not called.
InitGroups ==
  /\ Constructed({1})
  /\ Plain
  /\ \E p \in {q \in Plans : Cardinality({g \in GroupIds : q[g].size > 1}) <= 1} : plan = [t \in Tasks |-> IF t = 1 THEN p ELSE EmptyPlan]
  /\ ~abortable[1]

\* ---------------------------------------------------------------- clock
\* Time is counted from the first submit, and while a task is in the map.
Tick ==
  /\ now + ClockStep <= MaxTime
  /\ runnableTasks # {}
  /\ now' = now + ClockStep
  /\ UNCHANGED <<cfgVars, callVars, taskVars, subVars, abortVars>>

\* ------------------------------------------------- TaskExecutor.submit
\* A variant of checkTaskExecutorState that never throws.
neverShuttingDown == FALSE

\* checkTaskExecutorState throws IllegalStateException("TaskExecutor is shutting down").
checkTaskExecutorState == isShutdown

\* DrainableMap.put on a sealed map: the class is not among the sources; a sealed map
\* takes no further insert, and put is taken to throw, so that submit ends there.
putIsRefused == sealed

\* submit, checkTaskExecutorState(): the call ends with the exception, or goes on.
submitCheck(t) ==
  /\ pc[t] = "new"
  /\ IF checkTaskExecutorState
       THEN /\ pc' = [pc EXCEPT ![t] = "refused"]
            /\ submitted' = [submitted EXCEPT ![t] = "ExecutorShuttingDown"]
       ELSE /\ pc' = [pc EXCEPT ![t] = "put"]
            /\ UNCHANGED submitted
  /\ UNCHANGED <<now, cfgVars, runnableTasks, taskState, abortTime, subTaskGroups,
                 subTaskPosition, grp, member, anyRe, runnableSubTasks, iter, anyEx,
                 numTasksCompleted, subVars, abortVars, waitStartTime, taskFuture,
                 shutdownVars, waiterVars, obsVars>>

\* submit, runnableTasks.put(taskUUID, runnableTask), outside the try block.
submitPut(t) ==
  /\ pc[t] = "put"
  /\ IF putIsRefused
       THEN /\ pc' = [pc EXCEPT ![t] = "refused"]
            /\ submitted' = [submitted EXCEPT ![t] = "MapSealed"]
            /\ UNCHANGED runnableTasks
       ELSE /\ runnableTasks' = runnableTasks \cup {t}
            /\ pc' = [pc EXCEPT ![t] = "handoff"]
            /\ UNCHANGED submitted
  /\ UNCHANGED <<now, cfgVars, taskState, abortTime, subTaskGroups,
                 subTaskPosition, grp, member, anyRe, runnableSubTasks, iter, anyEx,
                 numTasksCompleted, subVars, abortVars, waitStartTime, taskFuture,
                 shutdownVars, waiterVars, obsVars>>

\* submit, the try block: runnableTask.future = taskExecutorService.submit(runnableTask)
\* returns the future and submit returns the taskUUID (rejected = FALSE), or it throws
\* (rejected = TRUE).
submitHandoff(t, rejected) ==
  /\ pc[t] = "handoff"
  /\ IF rejected
       THEN /\ pc' = [pc EXCEPT ![t] = "submitFailed"]
            /\ UNCHANGED <<taskFuture, submitted>>
       ELSE /\ pc' = [pc EXCEPT ![t] = "queued"]
            /\ taskFuture' = [taskFuture EXCEPT ![t] = "pending"]
            /\ submitted' = [submitted EXCEPT ![t] = "taskUUID"]
  /\ UNCHANGED <<now, cfgVars, runnableTasks, taskState, abortTime, subTaskGroups,
                 subTaskPosition, grp, member, anyRe, runnableSubTasks, iter, anyEx,
                 numTasksCompleted, subVars, abortVars, waitStartTime,
                 shutdownVars, waiterVars, obsVars>>

\* A variant of removeFromMap that leaves the entry in the map.
keptInMap(m, id) == m

\* runnableTasks.remove(taskUUID)
removeFromMap(m, id) == m \ {id}

\* submit, catch (Exception e): runnableTasks.remove, updateTaskDetailsOnError(Failure),
\* and, the exception not being thrown again, return taskUUID.
submitFailure(t) ==
  /\ pc[t] = "submitFailed"
  /\ runnableTasks' = removeFromMap(runnableTasks, t)
  /\ taskState' = [taskState EXCEPT ![t] = Failure]
  /\ pc' = [pc EXCEPT ![t] = "rejected"]
  /\ submitted' = [submitted EXCEPT ![t] = "taskUUID"]
  /\ UNCHANGED <<now, cfgVars, abortTime, subTaskGroups, subTaskPosition, grp,
                 member, anyRe, runnableSubTasks, iter, anyEx, numTasksCompleted,
                 subVars, abortVars, waitStartTime, taskFuture, shutdownVars, waiterVars, obsVars>>

\* ------------------------------------------- AbstractRunnableTask.run
\* getTaskExecutionLister(): the listener of the RunnableTask, for a subtask the one of
\* its parent.
getTaskExecutionLister(x) == taskExecutionListener[x[1]]

\* A variant of beforeTask in which the callback returns for every record.
beforeTaskReturns(x) == IF getTaskExecutionLister(x).set THEN "returns" ELSE "none"

\* publishBeforeTask for record x: "none" (the listener is null and nothing is called),
\* or how taskExecutionListener.beforeTask(taskInfo) ends.
beforeTask(x) ==
  LET l == getTaskExecutionLister(x)
  IN  CASE ~l.set -> "none"
        [] l.set /\ l.on = x /\ l.does = "beforeCancel" -> "cancel"
        [] l.set /\ l.on = x /\ l.does = "beforeThrows" -> "throws"
        [] OTHER -> "returns"

\* taskExecutionListener.afterTask(taskInfo, t) throws for record x.
afterTaskThrows(x) ==
  LET l == getTaskExecutionLister(x)
  IN  l.set /\ l.on = x /\ l.does = "afterThrows"

\* The calls of the listener after publishBeforeTask for record x ...
afterPublishBeforeTask(log, x) ==
  IF getTaskExecutionLister(x).set THEN Append(log, <<"before", x, "null">>) ELSE log

\* ... and after publishAfterTask(t) for record x, thr the kind of the throwable.
afterPublishAfterTask(log, x, thr) ==
  IF getTaskExecutionLister(x).set THEN Append(log, <<"after", x, thr>>) ELSE log

\* A variant of writeTaskWaitMetric that observes the wait of top-level tasks only.
waitMetricOfTasksOnly(x, n) == IF x = taskId(x[1]) THEN n + 1 ELSE n

\* writeTaskWaitMetric, called at the entry of run() of a task and of a subtask alike:
\* COMMISSIONER_TASK_WAITING_SEC.observe(...), one more observation after the n before.
writeTaskWaitMetric(x, n) == n + 1

\* A variant of isAbortedAtEntry that never finds the abort time set.
neverAbortedAtEntry(x) == FALSE

\* if (getAbortTime() != null): the abort time of the RunnableTask, for a subtask the
\* one of its parent.
isAbortedAtEntry(x) == abortTime[x[1]] # NoInstant

\* run, from its entry to setTaskState(Running): "aborted" (the abort time is set and
\* CancellationException is thrown before the listener is called), or what
\* publishBeforeTask did.
entry(x) == IF isAbortedAtEntry(x) THEN "aborted" ELSE beforeTask(x)

\* Where run goes on after its entry: the catch block of the exception, or
\* setTaskState(Running).
stepAfterEntry(e) ==
  CASE e \in {"aborted", "cancel"} -> "catchCancel"
    [] e = "throws" -> "catchFail"
    [] OTHER -> "setRunning"

\* The t of publishAfterTask(t) in the finally block, by the state the run wrote last.
throwableOf(state) ==
  CASE state = Success -> "null"
    [] state = Aborted -> "cancel"
    [] OTHER -> "fail"

\* ------------------------------- AbstractRunnableTask.run of a RunnableTask
\* run, up to setTaskState(Running): writeTaskWaitMetric, the abort check
\* (getAbortTime() != null throws CancellationException), publishBeforeTask.
runEntry(t) ==
  /\ pc[t] = "queued"
  /\ waitMetric' = writeTaskWaitMetric(taskId(t), waitMetric)
  /\ pc' = [pc EXCEPT ![t] = stepAfterEntry(entry(taskId(t)))]
  /\ calls' = [calls EXCEPT ![t] =
                 IF entry(taskId(t)) = "aborted" THEN @ ELSE afterPublishBeforeTask(@, taskId(t))]
  /\ UNCHANGED <<now, cfgVars, waitStartTime, taskFuture, submitted, shutdownVars, waiterVars,
                 terminated, stateMetric, position, parentUuid, thrown, replayed, callsAtReset,
                 timeVars,
                 runnableTasks, taskState, abortTime, subTaskGroups,
                 subTaskPosition, grp, member, anyRe, runnableSubTasks, iter, anyEx,
                 numTasksCompleted, subVars, abortVars>>

\* setTaskState(TaskInfo.State.Running)
setRunning(t) ==
  /\ pc[t] = "setRunning"
  /\ taskState' = [taskState EXCEPT ![t] = Running]
  /\ pc' = [pc EXCEPT ![t] = "body"]
  /\ UNCHANGED <<now, cfgVars, callVars, runnableTasks, abortTime, subTaskGroups,
                 subTaskPosition, grp, member, anyRe, runnableSubTasks, iter, anyEx,
                 numTasksCompleted, subVars, abortVars>>

\* A variant of positionAfter that leaves the counter as it is.
positionKept(p) == p

\* subTaskPosition++
positionAfter(p) == p + 1

\* The Task Store field `field` after taskInfo.set...(v) and save() for the records xs.
written(field, xs, v) == {e \in field : e[1] \notin xs} \cup {<<x, v>> : x \in xs}

\* task.run() of the top-level task: the author creates the next group of the plan and
\* its members (createSubTaskGroup, addSubTask: new records, no future, the counter of
\* the group at 0, taskScheduledTime = Instant.now() in the constructor) and attaches it with addSubTaskGroup(subTaskGroup):
\* setRunnableTaskContext writes the parent and the position of every member ...
addSubTaskGroup(t) ==
  /\ pc[t] = "body"
  /\ Len(subTaskGroups[t]) < MaxGroups
  /\ LET g == Len(subTaskGroups[t]) + 1
         xs == subTasks(t, g)
     IN  /\ subTaskGroups' = [subTaskGroups EXCEPT ![t] = Append(@, g)]
         /\ position' = written(position, xs, subTaskPosition[t])
         /\ parentUuid' = written(parentUuid, xs, t)
         /\ subTaskState' = [s \in SubTasks |-> IF s \in xs THEN Created ELSE subTaskState[s]]
         /\ future' = [s \in SubTasks |-> IF s \in xs THEN "null" ELSE future[s]]
         /\ spc' = [s \in SubTasks |-> IF s \in xs THEN "new" ELSE spc[s]]
         /\ numTasksCompleted' = [numTasksCompleted EXCEPT ![t][g] = 0]
         /\ taskScheduledTime' = [s \in SubTasks |->
                                   IF s \in xs THEN now ELSE taskScheduledTime[s]]
         /\ taskStartTime' = [s \in SubTasks |-> IF s \in xs THEN NoInstant ELSE taskStartTime[s]]
         /\ taskCompletionTime' = [s \in SubTasks |->
                                    IF s \in xs THEN NoInstant ELSE taskCompletionTime[s]]
  /\ subTaskPosition' = [subTaskPosition EXCEPT ![t] = positionAfter(@)]
  /\ UNCHANGED <<now, cfgVars, waitStartTime, taskFuture, submitted, shutdownVars, waiterVars,
                 calls, terminated, waitMetric, stateMetric, thrown, replayed, callsAtReset,
                 runnableTasks, taskState, abortTime, pc, grp, member, anyRe,
                 runnableSubTasks, iter, anyEx, abortVars>>

\* A variant of cleared that leaves the groups in the queue.
uncleared(groups) == groups

\* subTaskGroups.clear()
cleared(groups) == <<>>

\* RunnableTask.reset(), called by the body after runSubTasks returned, before it
\* attaches the groups again: subTaskGroups.clear() and subTaskPosition = 0.
reset(t) ==
  /\ pc[t] = "replay"
  /\ subTaskGroups' = [subTaskGroups EXCEPT ![t] = cleared(@)]
  /\ subTaskPosition' = [subTaskPosition EXCEPT ![t] = 0]
  /\ replayed' = [replayed EXCEPT ![t] = @ + 1]
  /\ callsAtReset' = [callsAtReset EXCEPT ![t] = Len(calls[t])]
  /\ pc' = [pc EXCEPT ![t] = "body"]
  /\ UNCHANGED <<now, cfgVars, waitStartTime, taskFuture, submitted, shutdownVars, waiterVars,
                 calls, terminated, waitMetric, stateMetric, position, parentUuid, thrown,
                 timeVars, runnableTasks, taskState, abortTime, grp, member, anyRe,
                 runnableSubTasks, iter, anyEx, numTasksCompleted, subVars, abortVars>>

\* ... and then calls runSubTasks(): anyRe = null and the for loop begins.
runSubTasks(t) ==
  /\ pc[t] = "body"
  /\ Len(subTaskGroups[t]) = MaxGroups
  /\ grp' = [grp EXCEPT ![t] = 1]
  /\ anyRe' = [anyRe EXCEPT ![t] = FALSE]
  /\ pc' = [pc EXCEPT ![t] = "forGroup"]
  /\ UNCHANGED <<now, cfgVars, callVars, runnableTasks, taskState, abortTime, subTaskGroups,
                 subTaskPosition, member, runnableSubTasks, iter, anyEx,
                 numTasksCompleted, subVars, abortVars>>

\* runSubTasks, head of the for loop: past the last group the method ends (it throws
\* when anyRe != null, and otherwise returns to the body, which returns or replays);
\* an empty group is skipped; otherwise submitSubTasks begins.
forGroup(t) ==
  /\ pc[t] = "forGroup"
  /\ IF grp[t] > Len(subTaskGroups[t])
       THEN /\ pc' = [pc EXCEPT ![t] = CASE anyRe[t] -> "catchFail"
                                         [] ~anyRe[t] /\ replayed[t] < replays[t] -> "replay"
                                         [] OTHER -> "setSuccess"]
            /\ UNCHANGED <<grp, member>>
       ELSE IF getSubTaskCount(t, subTaskGroups[t][grp[t]]) = 0
         THEN /\ grp' = [grp EXCEPT ![t] = @ + 1]
              /\ UNCHANGED <<pc, member>>
         ELSE /\ pc' = [pc EXCEPT ![t] = "submit"]
              /\ member' = [member EXCEPT ![t] = 1]
              /\ UNCHANGED grp
  /\ UNCHANGED <<now, cfgVars, callVars, runnableTasks, taskState, abortTime, subTaskGroups,
                 subTaskPosition, anyRe, runnableSubTasks, iter, anyEx,
                 numTasksCompleted, subVars, abortVars>>

\* submitSubTasks: runnable.executeWith(executorService) for the next member:
\* updateScheduledTime() and executorService.submit(this). When
\* executorService.submit throws, the catch block of executeWith writes Failure, calls
\* publishAfterTask(e) and throws e on: the for loop of submitSubTasks ends there and
\* the finally block of runSubTasks goes on to waitForSubTasks.
executeWith(t) ==
  /\ pc[t] = "submit"
  /\ LET g == subTaskGroups[t][grp[t]]
         s == <<t, g, member[t]>>
     IN  /\ taskScheduledTime' = [taskScheduledTime EXCEPT ![s] = now]
         /\ IF s \in rejectedByPool
              THEN /\ subTaskState' = [subTaskState EXCEPT ![s] = Failure]
                   /\ calls' = [calls EXCEPT ![t] = afterPublishAfterTask(@, s, "fail")]
                   /\ thrown' = [thrown EXCEPT ![t] = "submit"]
                   /\ pc' = [pc EXCEPT ![t] = "waitBegin"]
                   /\ UNCHANGED <<future, spc, member>>
              ELSE /\ future' = [future EXCEPT ![s] = "pending"]
                   /\ spc' = [spc EXCEPT ![s] = "queued"]
                   /\ IF member[t] = getSubTaskCount(t, g)
                        THEN /\ pc' = [pc EXCEPT ![t] = "waitBegin"]
                             /\ UNCHANGED member
                        ELSE /\ member' = [member EXCEPT ![t] = @ + 1]
                             /\ UNCHANGED pc
                   /\ UNCHANGED <<subTaskState, calls, thrown>>
  /\ UNCHANGED <<now, cfgVars, waitStartTime, taskFuture, submitted, shutdownVars, waiterVars,
                 terminated, waitMetric, stateMetric, position, parentUuid, replayed,
                 callsAtReset, taskStartTime, taskCompletionTime, runnableTasks, taskState,
                 abortTime, subTaskGroups, subTaskPosition, grp, anyRe, runnableSubTasks, iter, anyEx,
                 numTasksCompleted, abortVars>>

\* --------------------------------------------- SubTaskGroup.waitForSubTasks
\* this.skipSubTaskAbortableCheck = true, set in the constructor.
skipSubTaskAbortableCheck == TRUE

\* The subtasks of the group in iteration order.
subTaskSeq(t, g) == [i \in 1 .. getSubTaskCount(t, g) |-> <<t, g, i>>]

RemoveAt(seq, i) == SubSeq(seq, 1, i - 1) \o SubSeq(seq, i + 1, Len(seq))

\* A variant of waitIsOver that ends the wait at the first error.
waitIsOverOnFirstError(t) == Len(runnableSubTasks[t]) = 0 \/ anyEx[t] # "null"

\* while (runnableSubTasks.size() > 0) has ended.
waitIsOver(t) == Len(runnableSubTasks[t]) = 0

\* A variant of hasFuture that keeps the subtasks that were not submitted.
hasNoFuture(s) == future[s] = "null"

\* filter(t -> t.future != null)
hasFuture(s) == future[s] # "null"

\* waitForSubTasks, before the loop: waitStartTime = Instant.now(), the list of the
\* subtasks with a future, anyEx = null.
waitBegin(t) ==
  /\ pc[t] = "waitBegin"
  /\ LET g == subTaskGroups[t][grp[t]]
     IN  runnableSubTasks' = [runnableSubTasks EXCEPT ![t] =
                                SelectSeq(subTaskSeq(t, g), hasFuture)]
  /\ anyEx' = [anyEx EXCEPT ![t] = "null"]
  /\ iter' = [iter EXCEPT ![t] = 1]
  /\ pc' = [pc EXCEPT ![t] = "wait"]
  /\ waitStartTime' = [waitStartTime EXCEPT ![t] = now]
  /\ UNCHANGED <<now, cfgVars, runnableTasks, taskState, abortTime, subTaskGroups,
                 subTaskPosition, grp, member, anyRe, numTasksCompleted, subVars, abortVars,
                 taskFuture, submitted, shutdownVars, waiterVars, obsVars>>

\* The first branch of catch (TimeoutException e): the subtask has a time limit and the
\* time since waitStartTime is longer.
timeLimitExceeded(t, s) ==
  /\ timeLimit(s) # 0
  /\ now - waitStartTime[t] > timeLimit(s)

\* A variant of mayBeCancelled that looks at the marker of the subtask alone.
onlyMarkedIsCancelled(skip, marked) == marked

\* skipSubTaskAbortableCheck || isTaskAbortable(runnableSubTask.task.getClass())
mayBeCancelled(skip, marked) == skip \/ marked

\* A variant of abortTimedOut that never lets the wait cancel a subtask.
abortNeverTimesOut(t, s) == FALSE

\* A variant of abortTimedOut that does not wait for defaultAbortTaskTimeout.
abortTimeIsSet(t, s) == abortTime[t] # NoInstant

\* The abort branch of catch (TimeoutException e): the abort time is set, more than
\* defaultAbortTaskTimeout has passed since, and the subtask may be cancelled.
abortTimedOut(t, s) ==
  /\ abortTime[t] # NoInstant
  /\ now - abortTime[t] > defaultAbortTaskTimeout
  /\ mayBeCancelled(skipSubTaskAbortableCheck, isSubTaskAbortable(s))

\* What one visit of the iterator does to the subtask s it visits: "removeOk" (future.get
\* returned), "removeEx" (ExecutionException), "timeout" and "cancel" (the time limit
\* branch and the abort branch of TimeoutException), "removeCancelled"
\* (CancellationException), "keep" (TimeoutException and neither branch taken).
visit(t, s) ==
  CASE future[s] = "done" -> "removeOk"
    [] future[s] \in {"excFail", "excCancel"} -> "removeEx"
    [] future[s] = "cancelled" -> "removeCancelled"
    [] future[s] = "pending" /\ timeLimitExceeded(t, s) -> "timeout"
    [] future[s] = "pending" /\ ~timeLimitExceeded(t, s) /\ abortTimedOut(t, s) -> "cancel"
    [] OTHER -> "keep"

\* A variant of anyExAfter that takes the TimeoutException of the time limit for a
\* cancellation.
anyExTimeoutAsCancel(v, f, before) ==
  CASE v = "removeEx" -> IF f = "excCancel" THEN "cancel" ELSE "fail"
    [] v \in {"cancel", "removeCancelled", "timeout"} -> "cancel"
    [] OTHER -> before

\* A variant of anyExAfter that keeps the first error of the wait.
anyExFirstKept(v, f, before) ==
  CASE before # "null" -> before
    [] before = "null" /\ v = "removeEx" -> IF f = "excCancel" THEN "cancel" ELSE "fail"
    [] before = "null" /\ v \in {"cancel", "removeCancelled"} -> "cancel"
    [] before = "null" /\ v = "timeout" -> "fail"
    [] OTHER -> before

\* anyEx after a visit with outcome v of a subtask whose future was f: the kind of the
\* exception that Throwables.propagate(anyEx) throws, "cancel" for a
\* CancellationException and "fail" for any other (the cause of an ExecutionException,
\* or the TimeoutException of the time limit, wrapped in a RuntimeException).
anyExAfter(v, f, before) ==
  CASE v = "removeEx" -> IF f = "excCancel" THEN "cancel" ELSE "fail"
    [] v \in {"cancel", "removeCancelled"} -> "cancel"
    [] v = "timeout" -> "fail"
    [] OTHER -> before

\* The throwable that removeCompletedSubTask passes to publishAfterTask after a visit
\* with outcome v of a subtask whose future was f.
throwableAfter(v, f) ==
  CASE v = "removeOk" -> "null"
    [] v = "removeEx" -> IF f = "excCancel" THEN "cancel" ELSE "fail"
    [] v = "timeout" -> "timeout"
    [] OTHER -> "cancel"

\* One visit of the round-robin loop: future.get(TASK_SPIN_WAIT_INTERVAL_MS) on the
\* subtask under the iterator, the catch block it lands in, removeCompletedSubTask
\* (iterator.remove(), the counter, publishAfterTask). When the iterator is exhausted
\* the outer while starts a new round or ends the loop.
\* When afterTask throws (broke), the exception leaves waitForSubTasks: thrown from a
\* catch block it is caught by none of the others; thrown from the try block it lands in
\* catch (Exception e), which sets anyEx, writes Failure and calls
\* removeCompletedSubTask again, whose second iterator.remove() throws
\* IllegalStateException.
poll(t) ==
  /\ pc[t] = "wait"
  /\ ~waitIsOver(t)
  /\ thrown[t] # "listener"
  /\ LET list == runnableSubTasks[t]
         s == list[iter[t]]
         v == visit(t, s)
         broke == v # "keep" /\ afterTaskThrows(s)
         list2 == IF v = "keep" THEN list ELSE RemoveAt(list, iter[t])
         next == IF v = "keep" THEN iter[t] + 1 ELSE iter[t]
     IN  /\ runnableSubTasks' = [runnableSubTasks EXCEPT ![t] = list2]
         /\ iter' = [iter EXCEPT ![t] = IF next > Len(list2) THEN 1 ELSE next]
         /\ anyEx' = [anyEx EXCEPT ![t] =
                        IF broke /\ v = "removeOk" THEN "fail" ELSE anyExAfter(v, future[s], @)]
         /\ numTasksCompleted' = [numTasksCompleted EXCEPT ![t][groupOf(s)] =
                                    IF v = "keep" THEN @ ELSE @ + 1]
         /\ future' = [future EXCEPT ![s] =
                         IF v \in {"cancel", "timeout"} THEN "cancelled" ELSE @]
         /\ subTaskState' = [subTaskState EXCEPT ![s] =
                               CASE broke /\ v = "removeOk" -> Failure
                                 [] v \in {"cancel", "timeout", "removeCancelled"} -> Aborted
                                 [] OTHER -> @]
         /\ calls' = [calls EXCEPT ![t] =
                        IF v = "keep" THEN @
                        ELSE afterPublishAfterTask(@, s, throwableAfter(v, future[s]))]
         /\ thrown' = [thrown EXCEPT ![t] = IF broke THEN "listener" ELSE @]
  /\ UNCHANGED <<now, cfgVars, waitStartTime, taskFuture, submitted, shutdownVars, waiterVars,
                 terminated, waitMetric, stateMetric, position, parentUuid, replayed,
                 callsAtReset, timeVars, runnableTasks, taskState, abortTime, pc,
                 subTaskGroups, subTaskPosition, grp, member, anyRe, spc, abortVars>>

\* A variant of groupResult that ignores the errors of every group.
groupResultIgnoring(ex, ignore) ==
  CASE ex = "null" -> "next"
    [] ex = "cancel" -> "cancelled"
    [] OTHER -> "ignored"

\* A variant of groupResult that lets the error of a group that ignores errors end
\* runSubTasks.
groupResultNeverIgnoring(ex, ignore) ==
  CASE ex = "null" -> "next"
    [] ex = "cancel" -> "cancelled"
    [] OTHER -> "failed"

\* The catch blocks of runSubTasks around submitSubTasks and waitForSubTasks, given the
\* kind of the exception that waitForSubTasks threw ("null": it returned) and the
\* group's ignoreErrors: "next" (no exception), "cancelled" (catch CancellationException:
\* a CancellationException is thrown), "ignored" (the error is logged and anyRe = e),
\* "failed" (a RuntimeException is thrown).
groupResult(ex, ignore) ==
  CASE ex = "null" -> "next"
    [] ex = "cancel" -> "cancelled"
    [] ex = "fail" /\ ignore -> "ignored"
    [] ex = "fail" /\ ~ignore -> "failed"

\* A variant of anyReAfter that forgets an ignored error.
anyReKept(before, r) == before

\* anyRe != null after the catch blocks: anyRe = e is reached when the error is ignored.
anyReAfter(before, r) == before \/ r = "ignored"

\* A variant of exceptionOf that loses the exception of submitSubTasks.
exceptionOfWaitAlone(t) ==
  CASE thrown[t] = "listener" -> "fail"
    [] OTHER -> anyEx[t]

\* The kind of the exception that leaves the try block of runSubTasks: the exception
\* of a listener that left the wait loop; or anyEx, thrown by waitForSubTasks in the
\* finally block, which replaces an exception of submitSubTasks; or that exception of
\* submitSubTasks; "null" when none was thrown.
exceptionOf(t) ==
  CASE thrown[t] = "listener" -> "fail"
    [] thrown[t] # "listener" /\ anyEx[t] # "null" -> anyEx[t]
    [] thrown[t] = "submit" /\ anyEx[t] = "null" -> "fail"
    [] OTHER -> "null"

\* waitForSubTasks, after the loop (Throwables.propagate(anyEx) when anyEx != null), and
\* the catch blocks of runSubTasks: the for loop goes on to the next group, or
\* runSubTasks throws. The local waitStartTime is gone with the call.
waitEnd(t) ==
  /\ pc[t] = "wait"
  /\ waitIsOver(t) \/ thrown[t] = "listener"
  /\ thrown' = [thrown EXCEPT ![t] = "null"]
  /\ LET r == groupResult(exceptionOf(t), ignoreErrors(t, subTaskGroups[t][grp[t]]))
     IN  /\ anyRe' = [anyRe EXCEPT ![t] = anyReAfter(@, r)]
         /\ grp' = [grp EXCEPT ![t] = IF r \in {"next", "ignored"} THEN @ + 1 ELSE @]
         /\ pc' = [pc EXCEPT ![t] =
                     CASE r \in {"next", "ignored"} -> "forGroup"
                       [] r = "cancelled" -> "catchCancel"
                       [] r = "failed" -> "catchFail"]
  /\ waitStartTime' = [waitStartTime EXCEPT ![t] = NoInstant]
  /\ UNCHANGED <<now, cfgVars, taskFuture, submitted, shutdownVars, waiterVars,
                 calls, terminated, waitMetric, stateMetric, position, parentUuid, replayed,
                 callsAtReset, timeVars, runnableTasks, taskState, abortTime, subTaskGroups,
                 subTaskPosition, member, runnableSubTasks, iter, anyEx,
                 numTasksCompleted, subVars, abortVars>>

\* run, after task.run() returned: setTaskState(TaskInfo.State.Success).
setSuccess(t) ==
  /\ pc[t] = "setSuccess"
  /\ taskState' = [taskState EXCEPT ![t] = Success]
  /\ pc' = [pc EXCEPT ![t] = "finally"]
  /\ UNCHANGED <<now, cfgVars, callVars, runnableTasks, abortTime, subTaskGroups,
                 subTaskPosition, grp, member, anyRe, runnableSubTasks, iter, anyEx,
                 numTasksCompleted, subVars, abortVars>>

\* run, catch (CancellationException e): updateTaskDetailsOnError(Aborted, e).
catchCancel(t) ==
  /\ pc[t] = "catchCancel"
  /\ taskState' = [taskState EXCEPT ![t] = Aborted]
  /\ pc' = [pc EXCEPT ![t] = "finally"]
  /\ UNCHANGED <<now, cfgVars, callVars, runnableTasks, abortTime, subTaskGroups,
                 subTaskPosition, grp, member, anyRe, runnableSubTasks, iter, anyEx,
                 numTasksCompleted, subVars, abortVars>>

\* run, catch (Exception e): updateTaskDetailsOnError(Failure, e).
catchFail(t) ==
  /\ pc[t] = "catchFail"
  /\ taskState' = [taskState EXCEPT ![t] = Failure]
  /\ pc' = [pc EXCEPT ![t] = "finally"]
  /\ UNCHANGED <<now, cfgVars, callVars, runnableTasks, abortTime, subTaskGroups,
                 subTaskPosition, grp, member, anyRe, runnableSubTasks, iter, anyEx,
                 numTasksCompleted, subVars, abortVars>>

\* A variant of complete that takes the task out of the map as soon as the body has
\* returned, before the state is written.
removedOnReturn(t) ==
  /\ pc[t] = "setSuccess"
  /\ t \in runnableTasks
  /\ runnableTasks' = removeFromMap(runnableTasks, t)
  /\ UNCHANGED <<now, cfgVars, callVars, taskState, abortTime, pc, subTaskGroups,
                 subTaskPosition, grp, member, anyRe, runnableSubTasks, iter, anyEx,
                 numTasksCompleted, subVars, abortVars>>

\* The finally blocks of AbstractRunnableTask.run (writeTaskStateMetric with the state
\* of the record, publishAfterTask(t), and, unless afterTask threw, task.terminate())
\* and of RunnableTask.run: runnableTasks.remove(taskUUID) ends the worker-side run, and
\* the future of the task completes with the result or the exception of run.
complete(t) ==
  /\ pc[t] = "finally"
  /\ stateMetric' = [stateMetric EXCEPT ![taskState[t]] = @ + 1]
  /\ calls' = [calls EXCEPT ![t] =
                 afterPublishAfterTask(@, taskId(t), throwableOf(taskState[t]))]
  /\ terminated' = IF afterTaskThrows(taskId(t)) THEN terminated
                                                 ELSE terminated \cup {taskId(t)}
  /\ runnableTasks' = removeFromMap(runnableTasks, t)
  /\ pc' = [pc EXCEPT ![t] = "done"]
  /\ taskFuture' = [taskFuture EXCEPT ![t] =
                      CASE afterTaskThrows(taskId(t)) \/ taskState[t] = Failure -> "excFail"
                        [] ~afterTaskThrows(taskId(t)) /\ taskState[t] = Aborted -> "excCancel"
                        [] OTHER -> "done"]
  /\ UNCHANGED <<now, cfgVars, taskState, abortTime, subTaskGroups,
                 subTaskPosition, grp, member, anyRe, runnableSubTasks, iter, anyEx,
                 numTasksCompleted, subVars, abortVars, waitStartTime, submitted,
                 shutdownVars, waiterVars, waitMetric, position, parentUuid, thrown,
                 replayed, callsAtReset, timeVars>>

\* ---------------------------- AbstractRunnableTask.run of a RunnableSubTask
\* run, up to setTaskState(Running): writeTaskWaitMetric, the abort check
\* (RunnableSubTask.getAbortTime is the parent's abort time), publishBeforeTask.
\* A future cancelled before its worker starts never runs.
subRunEntry(s) ==
  /\ spc[s] = "queued"
  /\ future[s] = "pending"
  /\ taskStartTime' = [taskStartTime EXCEPT ![s] = now]
  /\ waitMetric' = writeTaskWaitMetric(s, waitMetric)
  /\ spc' = [spc EXCEPT ![s] = stepAfterEntry(entry(s))]
  /\ calls' = [calls EXCEPT ![parentRunnableTask(s)] =
                 IF entry(s) = "aborted" THEN @ ELSE afterPublishBeforeTask(@, s)]
  /\ UNCHANGED <<now, cfgVars, waitStartTime, taskFuture, submitted, shutdownVars, waiterVars,
                 terminated, stateMetric, position, parentUuid, thrown, replayed, callsAtReset,
                 taskScheduledTime, taskCompletionTime, taskVars, subTaskState, future,
                 abortVars>>

\* setTaskState(TaskInfo.State.Running)
subSetRunning(s) ==
  /\ spc[s] = "setRunning"
  /\ subTaskState' = [subTaskState EXCEPT ![s] = Running]
  /\ spc' = [spc EXCEPT ![s] = "body"]
  /\ UNCHANGED <<now, cfgVars, callVars, taskVars, future, abortVars>>

\* task.run() of the subtask returns and setTaskState(Success) follows (throws = FALSE),
\* or it throws an exception and updateTaskDetailsOnError(Failure, e) follows.
subTaskRun(s, throws) ==
  /\ spc[s] = "body"
  /\ subTaskState' = [subTaskState EXCEPT ![s] = IF throws THEN Failure ELSE Success]
  /\ spc' = [spc EXCEPT ![s] = IF throws THEN "finallyFail" ELSE "finallyOk"]
  /\ UNCHANGED <<now, cfgVars, callVars, taskVars, future, abortVars>>

\* catch (CancellationException e): updateTaskDetailsOnError(Aborted, e).
subCatchCancel(s) ==
  /\ spc[s] = "catchCancel"
  /\ subTaskState' = [subTaskState EXCEPT ![s] = Aborted]
  /\ spc' = [spc EXCEPT ![s] = "finallyCancel"]
  /\ UNCHANGED <<now, cfgVars, callVars, taskVars, future, abortVars>>

\* catch (Exception e), reached when beforeTask threw:
\* updateTaskDetailsOnError(Failure, e).
subCatchFail(s) ==
  /\ spc[s] = "catchFail"
  /\ subTaskState' = [subTaskState EXCEPT ![s] = Failure]
  /\ spc' = [spc EXCEPT ![s] = "finallyFail"]
  /\ UNCHANGED <<now, cfgVars, callVars, taskVars, future, abortVars>>

\* A variant of completionTime that leaves the field null.
completionTimeNotTaken(started, at) == NoInstant

\* taskCompletionTime = Instant.now(), in the finally block of a run that started at
\* `started`.
completionTime(started, at) == at

\* The finally block (taskCompletionTime, writeTaskStateMetric with the state of the record,
\* publishAfterTask(t), and, unless afterTask threw, task.terminate()), and run ends: the
\* future completes with the result or the exception of run, unless it was cancelled
\* meanwhile.
subComplete(s) ==
  /\ spc[s] \in {"finallyOk", "finallyFail", "finallyCancel"}
  /\ taskCompletionTime' = [taskCompletionTime EXCEPT ![s] = completionTime(taskStartTime[s], now)]
  /\ stateMetric' = [stateMetric EXCEPT ![subTaskState[s]] = @ + 1]
  /\ calls' = [calls EXCEPT ![parentRunnableTask(s)] =
                 afterPublishAfterTask(@, s, CASE spc[s] = "finallyOk" -> "null"
                                               [] spc[s] = "finallyFail" -> "fail"
                                               [] spc[s] = "finallyCancel" -> "cancel")]
  /\ terminated' = IF afterTaskThrows(s) THEN terminated ELSE terminated \cup {s}
  /\ future' = [future EXCEPT ![s] =
                  IF @ # "pending" THEN @
                  ELSE CASE afterTaskThrows(s) \/ spc[s] = "finallyFail" -> "excFail"
                         [] ~afterTaskThrows(s) /\ spc[s] = "finallyOk" -> "done"
                         [] ~afterTaskThrows(s) /\ spc[s] = "finallyCancel" -> "excCancel"]
  /\ spc' = [spc EXCEPT ![s] = "done"]
  /\ UNCHANGED <<now, cfgVars, waitStartTime, taskFuture, submitted, shutdownVars, waiterVars,
                 waitMetric, position, parentUuid, thrown, replayed, callsAtReset,
                 taskScheduledTime, taskStartTime,
                 taskVars, subTaskState, abortVars>>

\* A variant of isTaskAbortable that takes every class for abortable.
everyTaskAbortable(t) == TRUE

\* -------------------------------------------------- TaskExecutor.abort
\* isTaskAbortable(task.getClass()): the @Abortable marker of the task's class.
isTaskAbortable(t) == abortable[t]

\* A variant of maybeGetRunnableTask that finds every id.
everyTaskFound(id) == TRUE

\* maybeGetRunnableTask(taskUUID).isPresent()
maybeGetRunnableTask(id) == id \in runnableTasks

\* A variant of abortTimeIsNull that finds the abort time null at every call.
abortTimeTakenForNull(t) == TRUE

\* if (runnableTask.getAbortTime() == null)
abortTimeIsNull(t) == abortTime[t] = NoInstant

\* abort, up to the test of the abort time: Optional.empty() when the task is not in the
\* map, a RuntimeException when its class is not abortable, and otherwise the caller goes
\* on to set the abort time when its test found null. The callers are interchangeable:
\* they are numbered in the order in which they call. So are the ids of the tasks that
\* were never created: the call is made with the first of them.
abortLookup(c, id) ==
  /\ apc[c] = "idle"
  /\ \A d \in AbortCallers : d < c => apc[d] # "idle"
  /\ pc[id] = "absent" => \A j \in Tasks : pc[j] = "absent" => id <= j
  /\ target' = [target EXCEPT ![c] = id]
  /\ IF ~maybeGetRunnableTask(id)
       THEN /\ apc' = [apc EXCEPT ![c] = "done"]
            /\ result' = [result EXCEPT ![c] = "empty"]
            /\ UNCHANGED seen
       ELSE IF ~isTaskAbortable(id)
         THEN /\ apc' = [apc EXCEPT ![c] = "done"]
              /\ result' = [result EXCEPT ![c] = "NotAbortable"]
              /\ UNCHANGED seen
         ELSE /\ apc' = [apc EXCEPT ![c] = IF abortTimeIsNull(id) THEN "set" ELSE "cas"]
              /\ seen' = [seen EXCEPT ![c] = abortTime[id]]
              /\ UNCHANGED result
  /\ UNCHANGED <<now, cfgVars, callVars, taskVars, subVars, swapped>>

\* runnableTask.setAbortTime(Instant.now())
abortSet(c) ==
  /\ apc[c] = "set"
  /\ abortTime' = [abortTime EXCEPT ![target[c]] = now]
  /\ apc' = [apc EXCEPT ![c] = "cas"]
  /\ UNCHANGED <<now, cfgVars, callVars, runnableTasks, taskState, pc, subTaskGroups, subTaskPosition,
                 grp, member, anyRe, runnableSubTasks, iter, anyEx, numTasksCompleted,
                 subVars, target, seen, swapped, result>>

\* A variant of compareAndSetTaskState that sets the state whatever the current one.
setTaskStateAlways(current, expectedStates, state) == state

\* compareAndSetTaskState(expectedStates, state): the state of the record afterwards.
compareAndSetTaskState(current, expectedStates, state) ==
  IF current \in expectedStates THEN state ELSE current

\* compareAndSetTaskState({Initializing, Created, Running}, State.Abort), and abort
\* returns Optional.of(runnableTask.taskInfo).
abortCas(c) ==
  /\ apc[c] = "cas"
  /\ taskState' = [taskState EXCEPT ![target[c]] =
                     compareAndSetTaskState(@, {Initializing, Created, Running}, Abort)]
  /\ swapped' = [swapped EXCEPT ![c] = taskState'[target[c]] # taskState[target[c]]]
  /\ apc' = [apc EXCEPT ![c] = "done"]
  /\ result' = [result EXCEPT ![c] = "record"]
  /\ UNCHANGED <<now, cfgVars, callVars, runnableTasks, abortTime, pc, subTaskGroups, subTaskPosition,
                 grp, member, anyRe, runnableSubTasks, iter, anyEx, numTasksCompleted,
                 subVars, target, seen>>

\* ------------------------------------------------- TaskExecutor.shutdown
\* A variant of isFirstShutdown that lets every caller in.
everyShutdownIsFirst(flag) == TRUE

\* What isShutdown.compareAndSet(false, true) returns, given the flag before.
isFirstShutdown(flag) == ~flag

\* A variant of shutdownStepAfter that sets the abort times before it seals the map.
shutdownAbortsBeforeSeal(p) ==
  CASE p = "cas" -> "forEach"
    [] p = "forEach" -> "sealMap"
    [] p = "sealMap" -> "waitForEmpty"

\* The order of the statements of shutdown after a compareAndSet that returned true:
\* runnableTasks.sealMap(), then the forEach that sets the abort times, then waitForEmpty.
shutdownStepAfter(p) ==
  CASE p = "cas" -> "sealMap"
    [] p = "sealMap" -> "forEach"
    [] p = "forEach" -> "waitForEmpty"

\* shutdown, if (isShutdown.compareAndSet(false, true)). The callers are
\* interchangeable: they are numbered in the order in which they call.
shutdownCas(c) ==
  /\ hpc[c] = "idle"
  /\ \A d \in ShutdownCallers : d < c => hpc[d] # "idle"
  /\ late' = [late EXCEPT ![c] = isShutdown]
  /\ isShutdown' = TRUE
  /\ hpc' = [hpc EXCEPT ![c] =
               IF isFirstShutdown(isShutdown) THEN shutdownStepAfter("cas") ELSE "waitForEmpty"]
  /\ UNCHANGED <<now, cfgVars, taskVars, subVars, abortVars, waitStartTime, taskFuture,
                 submitted, sealed, wrote, hres, waiterVars, obsVars>>

\* runnableTasks.sealMap()
sealMap(c) ==
  /\ hpc[c] = "sealMap"
  /\ sealed' = TRUE
  /\ wrote' = wrote \cup {c}
  /\ hpc' = [hpc EXCEPT ![c] = shutdownStepAfter("sealMap")]
  /\ UNCHANGED <<now, cfgVars, taskVars, subVars, abortVars, waitStartTime, taskFuture,
                 submitted, isShutdown, late, hres, waiterVars, obsVars>>

\* Instant abortTime = Instant.now() and, synchronized on the map, runnableTasks.forEach
\* with runnable.setAbortTime(abortTime): the abort time of every task in the map is
\* set, whether it was null or not.
shutdownForEach(c) ==
  /\ hpc[c] = "forEach"
  /\ abortTime' = [t \in Tasks |-> IF t \in runnableTasks THEN now ELSE abortTime[t]]
  /\ wrote' = wrote \cup {c}
  /\ hpc' = [hpc EXCEPT ![c] = shutdownStepAfter("forEach")]
  /\ UNCHANGED <<now, cfgVars, runnableTasks, taskState, pc, subTaskGroups, subTaskPosition,
                 grp, member, anyRe, runnableSubTasks, iter, anyEx, numTasksCompleted,
                 subVars, abortVars, waitStartTime, taskFuture, submitted, isShutdown,
                 sealed, late, hres, waiterVars, obsVars>>

\* DrainableMap.waitForEmpty(timeout), which is not among the sources: it returns true
\* when the map is empty, and false when the timeout ends first.
waitForEmpty(m) == IF m = {} THEN "true" ELSE "false"

\* return runnableTasks.waitForEmpty(timeout): the call returns at once when the map is
\* empty; otherwise it blocks, and returns false when the timeout ends or, from the
\* catch block, when the thread is interrupted (gaveUp).
shutdownReturn(c, gaveUp) ==
  /\ hpc[c] = "waitForEmpty"
  /\ gaveUp = (runnableTasks # {})
  /\ hres' = [hres EXCEPT ![c] = waitForEmpty(runnableTasks)]
  /\ hpc' = [hpc EXCEPT ![c] = "done"]
  /\ UNCHANGED <<now, cfgVars, taskVars, subVars, abortVars, waitStartTime, taskFuture,
                 submitted, isShutdown, sealed, late, wrote, waiterVars, obsVars>>

\* ----------------------------------------------- TaskExecutor.waitForTask
\* A variant of futureAfterGet in which a get that timed out cancels the future.
futureCancelledByGet(f, timedOut) == IF timedOut THEN "cancelled" ELSE f

\* The future after future.get(timeout.toMillis(), MILLISECONDS) or future.get(): get
\* leaves the future as it is, also when it throws TimeoutException.
futureAfterGet(f, timedOut) == f

\* waitForTask(taskUUID, timeout), up to the get: it returns when the task is not in the
\* map; runnableTask.future is null until submit has handed the task over.
waitForTask(id, timed) ==
  /\ wpc = "idle"
  /\ wtarget' = id
  /\ IF ~maybeGetRunnableTask(id)
       THEN wpc' = "done" /\ wres' = "returned"
       ELSE IF taskFuture[id] = "null"
         THEN wpc' = "done" /\ wres' = "NullPointerException"
         ELSE wpc' = (IF timed THEN "getTimed" ELSE "get") /\ UNCHANGED wres
  /\ UNCHANGED <<now, cfgVars, taskVars, subVars, abortVars, waitStartTime, taskFuture,
                 submitted, shutdownVars, obsVars>>

\* The get returns or throws: the future has completed (the cause of an
\* ExecutionException is thrown on), or, for a get with a timeout, the timeout has ended
\* (timedOut) and the TimeoutException is thrown on.
waitForTaskEnds(timedOut) ==
  /\ wpc \in {"get", "getTimed"}
  /\ timedOut => wpc = "getTimed"
  /\ timedOut = (taskFuture[wtarget] = "pending")
  /\ wres' = CASE taskFuture[wtarget] = "pending" -> "TimeoutException"
               [] taskFuture[wtarget] = "done" -> "returned"
               [] OTHER -> "thrown"
  /\ taskFuture' = [taskFuture EXCEPT ![wtarget] = futureAfterGet(@, timedOut)]
  /\ wpc' = "done"
  /\ UNCHANGED <<now, cfgVars, taskVars, subVars, abortVars, waitStartTime, submitted,
                 shutdownVars, wtarget, obsVars>>

\* ------------------------------------------------------ specification
Next ==
  \/ Tick
  \/ \E t \in Tasks : submitCheck(t)
  \/ \E t \in Tasks : submitPut(t)
  \/ \E t \in Tasks, rejected \in BOOLEAN : submitHandoff(t, rejected)
  \/ \E t \in Tasks : submitFailure(t)
  \/ \E t \in Tasks : runEntry(t)
  \/ \E t \in Tasks : setRunning(t)
  \/ \E t \in Tasks : addSubTaskGroup(t)
  \/ \E t \in Tasks : runSubTasks(t)
  \/ \E t \in Tasks : forGroup(t)
  \/ \E t \in Tasks : executeWith(t)
  \/ \E t \in Tasks : waitBegin(t)
  \/ \E t \in Tasks : poll(t)
  \/ \E t \in Tasks : waitEnd(t)
  \/ \E t \in Tasks : setSuccess(t)
  \/ \E t \in Tasks : catchCancel(t)
  \/ \E t \in Tasks : catchFail(t)
  \/ \E t \in Tasks : complete(t)
  \/ \E s \in SubTasks : subRunEntry(s)
  \/ \E s \in SubTasks : subSetRunning(s)
  \/ \E s \in SubTasks, throws \in BOOLEAN : subTaskRun(s, throws)
  \/ \E s \in SubTasks : subCatchCancel(s)
  \/ \E s \in SubTasks : subComplete(s)
  \/ \E c \in AbortCallers, id \in Tasks : abortLookup(c, id)
  \/ \E c \in AbortCallers : abortSet(c)
  \/ \E c \in AbortCallers : abortCas(c)

\* The steps of the workers alone: no caller of abort, and no clock, which only the
\* abort branch of the wait reads.
NextGroups ==
  \/ \E t \in Tasks : submitCheck(t)
  \/ \E t \in Tasks : submitPut(t)
  \/ \E t \in Tasks, rejected \in BOOLEAN : submitHandoff(t, rejected)
  \/ \E t \in Tasks : submitFailure(t)
  \/ \E t \in Tasks : runEntry(t)
  \/ \E t \in Tasks : setRunning(t)
  \/ \E t \in Tasks : addSubTaskGroup(t)
  \/ \E t \in Tasks : runSubTasks(t)
  \/ \E t \in Tasks : forGroup(t)
  \/ \E t \in Tasks : executeWith(t)
  \/ \E t \in Tasks : waitBegin(t)
  \/ \E t \in Tasks : poll(t)
  \/ \E t \in Tasks : waitEnd(t)
  \/ \E t \in Tasks : setSuccess(t)
  \/ \E t \in Tasks : catchFail(t)
  \/ \E t \in Tasks : complete(t)
  \/ \E s \in SubTasks : subRunEntry(s)
  \/ \E s \in SubTasks : subSetRunning(s)
  \/ \E s \in SubTasks, throws \in BOOLEAN : subTaskRun(s, throws)
  \/ \E s \in SubTasks : subComplete(s)

Spec == Init /\ [][Next]_vars

SpecGroups == InitGroups /\ [][NextGroups]_vars

\* Two tasks without subtasks, submitted while shutdown is called, by up to two callers.
InitShutdown ==
  /\ Constructed({1, 2})
  /\ Plain
  /\ \A t \in Tasks : ~abortable[t]
  /\ plan = [t \in Tasks |-> EmptyPlan]

NextShutdown ==
  \/ \E t \in Tasks : submitCheck(t)
  \/ \E t \in Tasks : submitPut(t)
  \/ \E t \in Tasks, rejected \in BOOLEAN : submitHandoff(t, rejected)
  \/ \E t \in Tasks : submitFailure(t)
  \/ \E t \in Tasks : runEntry(t)
  \/ \E t \in Tasks : setRunning(t)
  \/ \E t \in Tasks : addSubTaskGroup(t)
  \/ \E t \in Tasks : runSubTasks(t)
  \/ \E t \in Tasks : forGroup(t)
  \/ \E t \in Tasks : setSuccess(t)
  \/ \E t \in Tasks : catchCancel(t)
  \/ \E t \in Tasks : complete(t)
  \/ \E c \in ShutdownCallers : shutdownCas(c)
  \/ \E c \in ShutdownCallers : sealMap(c)
  \/ \E c \in ShutdownCallers : shutdownForEach(c)
  \/ \E c \in ShutdownCallers, gaveUp \in BOOLEAN : shutdownReturn(c, gaveUp)

SpecShutdown == InitShutdown /\ [][NextShutdown]_vars

\* The steps of the workers, and a caller of waitForTask.
NextWait ==
  \/ NextGroups
  \/ \E id \in Tasks, timed \in BOOLEAN : waitForTask(id, timed)
  \/ \E timedOut \in BOOLEAN : waitForTaskEnds(timedOut)

\* One task whose groups have at most one member each; abort is not called.
InitWait ==
  /\ Constructed({1})
  /\ Plain
  /\ ~abortable[1]
  /\ \E p \in {q \in Plans : \A g \in GroupIds : q[g].size <= 1} :
       plan = [t \in Tasks |-> IF t = 1 THEN p ELSE EmptyPlan]

SpecWait == InitWait /\ [][NextWait]_vars

\* The steps of a call of submit and of the worker of the task it hands over.
taskSteps(t) ==
  \/ submitCheck(t)
  \/ submitPut(t)
  \/ \E rejected \in BOOLEAN : submitHandoff(t, rejected)
  \/ submitFailure(t)
  \/ runEntry(t)
  \/ setRunning(t)
  \/ addSubTaskGroup(t)
  \/ runSubTasks(t)
  \/ forGroup(t)
  \/ executeWith(t)
  \/ waitBegin(t)
  \/ poll(t)
  \/ waitEnd(t)
  \/ setSuccess(t)
  \/ catchCancel(t)
  \/ catchFail(t)
  \/ complete(t)

\* The steps of the worker of a subtask.
subTaskSteps(s) ==
  \/ subRunEntry(s)
  \/ subSetRunning(s)
  \/ \E throws \in BOOLEAN : subTaskRun(s, throws)
  \/ subCatchCancel(s)
  \/ subComplete(s)

\* The clock of the model can still run past defaultAbortTaskTimeout from now.
graceCanEnd == \E k \in 1 .. MaxTime : /\ now + k * ClockStep <= MaxTime
                                       /\ k * ClockStep > defaultAbortTaskTimeout

\* Two tasks in flight, the first with one group of one subtask, the second without
\* subtasks, and one call of shutdown.
InitDrain ==
  /\ Constructed({1, 2})
  /\ Plain
  /\ \A t \in Tasks : ~abortable[t]
  /\ plan = [t \in Tasks |-> [g \in GroupIds |->
               IF t = 1 /\ g = 1 THEN [ignoreErrors |-> FALSE, size |-> 1,
                                       timeLimit |-> 0, abortable |-> FALSE]
                                 ELSE EmptyPlan[g]]]

NextDrain ==
  \/ Tick
  \/ \E t \in Tasks : taskSteps(t)
  \/ \E s \in SubTasks : subTaskSteps(s)
  \/ shutdownCas(1)
  \/ sealMap(1)
  \/ graceCanEnd /\ shutdownForEach(1)
  \/ \E gaveUp \in BOOLEAN : shutdownReturn(1, gaveUp)

\* The pools run the workers of the tasks and the clock goes on; the body of a subtask
\* may never return.
SpecDrain ==
  /\ InitDrain
  /\ [][NextDrain]_vars
  /\ WF_vars(Tick)
  /\ \A t \in Tasks : WF_vars(taskSteps(t))

\* One abortable task whose first group has one member, with or without a time limit
\* and an @Abortable marker, and whose second group has at most one; one caller of abort.
InitLimit ==
  /\ Constructed({1})
  /\ Plain
  /\ abortable[1]
  /\ \E p \in {q \in AllPlans : /\ q[1].size = 1
                               /\ q[2].size <= 1 /\ q[2].timeLimit = 0 /\ ~q[2].abortable
                               /\ \A g \in GroupIds \ {1, 2} : q[g].size = 0} :
       plan = [t \in Tasks |-> IF t = 1 THEN p ELSE EmptyPlan]

NextLimit ==
  \/ Tick
  \/ taskSteps(1)
  \/ \E s \in SubTasks : subTaskSteps(s)
  \/ abortLookup(1, 1)
  \/ abortSet(1)
  \/ abortCas(1)

SpecLimit == InitLimit /\ [][NextLimit]_vars

\* One task with groups of up to MaxMembers members, at most one of the groups with more
\* than one member, and a pool that refuses at most one of the subtasks; abort is not
\* called.
InitSubmit ==
  /\ Constructed({1})
  /\ ~abortable[1]
  /\ taskExecutionListener = [t \in Tasks |-> NoListener]
  /\ replays = [t \in Tasks |-> 0]
  /\ \E p \in {q \in Plans : Cardinality({g \in GroupIds : q[g].size > 1}) <= 1} :
       /\ plan = [t \in Tasks |-> IF t = 1 THEN p ELSE EmptyPlan]
       /\ \E r \in {{}} \cup {{<<1, g, i>>} : g \in GroupIds, i \in MemberIds} :
            /\ \A x \in r : x[3] <= p[x[2]].size
            /\ rejectedByPool = r

SpecSubmit == InitSubmit /\ [][NextGroups]_vars

\* One abortable task with a listener: the first group has one member, the second at
\* most one; the listener is quiet or misbehaves at one callback for the task or for one
\* of its subtasks; one caller of abort. The clock stands still.
InitListener ==
  /\ Constructed({1})
  /\ abortable[1]
  /\ replays = [t \in Tasks |-> 0]
  /\ rejectedByPool = {}
  /\ \E p \in {q \in Plans : /\ q[1].size = 1
                            /\ q[2].size <= 1
                            /\ \A g \in GroupIds \ {1, 2} : q[g].size = 0} :
       /\ plan = [t \in Tasks |-> IF t = 1 THEN p ELSE EmptyPlan]
       /\ \E l \in Listeners(1) :
            /\ l.set
            /\ l.does # "quiet" =>
                 l.on \in {taskId(1)} \cup {x \in SubTasks : x[1] = 1 /\ x[3] <= p[x[2]].size}
            /\ taskExecutionListener = [t \in Tasks |-> IF t = 1 THEN l ELSE NoListener]

NextListener ==
  \/ taskSteps(1)
  \/ \E s \in SubTasks : subTaskSteps(s)
  \/ \E s \in SubTasks : subCatchFail(s)
  \/ abortLookup(1, 1)
  \/ abortSet(1)
  \/ abortCas(1)

SpecListener == InitListener /\ [][NextListener]_vars

\* One task with a listener that returns from every callback; its groups have at most
\* one member each; the body calls runSubTasks, then reset, attaches the groups of its
\* plan again and calls runSubTasks again. abort is not called.
InitReplay ==
  /\ Constructed({1})
  /\ ~abortable[1]
  /\ taskExecutionListener = [t \in Tasks |-> IF t = 1 THEN QuietListener ELSE NoListener]
  /\ replays = [t \in Tasks |-> IF t = 1 THEN 1 ELSE 0]
  /\ rejectedByPool = {}
  /\ \E p \in {q \in Plans : \A g \in GroupIds : q[g].size <= 1} :
       plan = [t \in Tasks |-> IF t = 1 THEN p ELSE EmptyPlan]

NextReplay ==
  \/ NextGroups
  \/ \E t \in Tasks : reset(t)

SpecReplay == InitReplay /\ [][NextReplay]_vars

\* One task whose first group has up to MaxMembers members and whose second has at most
\* one; the pool refuses at most one of the subtasks; the listener, when one is set, returns from
\* every callback or throws CancellationException from beforeTask for one of the
\* subtasks. abort is not called.
InitReject ==
  /\ Constructed({1})
  /\ ~abortable[1]
  /\ replays = [t \in Tasks |-> 0]
  /\ \E p \in {q \in Plans : /\ q[1].size >= 1
                            /\ q[2].size <= 1
                            /\ \A g \in GroupIds \ {1, 2} : q[g].size = 0} :
       /\ plan = [t \in Tasks |-> IF t = 1 THEN p ELSE EmptyPlan]
       /\ \E R \in SUBSET {x \in SubTasks : x[1] = 1 /\ x[3] <= p[x[2]].size} :
            Cardinality(R) <= 1 /\ rejectedByPool = R
       /\ \E l \in Listeners(1) :
            /\ l.does \in {"quiet", "beforeCancel"}
            /\ l.does = "beforeCancel" =>
                 l.on \in {x \in SubTasks : x[1] = 1 /\ x[3] <= p[x[2]].size}
            /\ taskExecutionListener = [t \in Tasks |-> IF t = 1 THEN l ELSE NoListener]

NextReject ==
  \/ NextGroups
  \/ \E t \in Tasks : catchCancel(t)
  \/ \E s \in SubTasks : subCatchCancel(s)

SpecReject == InitReject /\ [][NextReject]_vars

\* One task with a listener, whose first group has up to MaxMembers members and whose
\* second has at most one; the pool takes every subtask; the listener returns from every
\* callback or throws CancellationException from beforeTask for one of the subtasks.
InitCancel ==
  /\ Constructed({1})
  /\ ~abortable[1]
  /\ replays = [t \in Tasks |-> 0]
  /\ rejectedByPool = {}
  /\ \E p \in {q \in Plans : /\ q[1].size >= 1
                            /\ q[2].size <= 1
                            /\ \A g \in GroupIds \ {1, 2} : q[g].size = 0} :
       /\ plan = [t \in Tasks |-> IF t = 1 THEN p ELSE EmptyPlan]
       /\ \E l \in Listeners(1) :
            /\ l.set
            /\ l.does \in {"quiet", "beforeCancel"}
            /\ l.does = "beforeCancel" =>
                 l.on \in {x \in SubTasks : x[1] = 1 /\ x[3] <= p[x[2]].size}
            /\ taskExecutionListener = [t \in Tasks |-> IF t = 1 THEN l ELSE NoListener]

SpecCancel == InitCancel /\ [][NextReject]_vars

\* One abortable task with one group of one subtask, one caller of abort and one caller
\* of shutdown, and the clock.
InitStop ==
  /\ Constructed({1})
  /\ Plain
  /\ abortable[1]
  /\ plan = [t \in Tasks |-> [g \in GroupIds |->
               IF t = 1 /\ g = 1 THEN [ignoreErrors |-> FALSE, size |-> 1,
                                       timeLimit |-> 0, abortable |-> FALSE]
                                 ELSE EmptyPlan[g]]]

NextStop ==
  \/ Tick
  \/ taskSteps(1)
  \/ \E s \in SubTasks : subTaskSteps(s)
  \/ abortLookup(1, 1)
  \/ abortSet(1)
  \/ abortCas(1)
  \/ shutdownCas(1)
  \/ sealMap(1)
  \/ shutdownForEach(1)
  \/ \E gaveUp \in BOOLEAN : shutdownReturn(1, gaveUp)

SpecStop == InitStop /\ [][NextStop]_vars

\* One abortable task whose first group has one member without a time limit, with or
\* without the @Abortable marker, and whose second group has at most one member; one
\* caller of abort, who sets the abort time while the clock of the model can still run
\* past the abort timeout.
InitGrace ==
  /\ Constructed({1})
  /\ Plain
  /\ abortable[1]
  /\ \E p \in {q \in AllPlans :
                 /\ q[1].size = 1
                 /\ q[2].size <= 1 /\ ~q[2].abortable
                 /\ \A g \in GroupIds :
                      (~q[g].ignoreErrors /\ q[g].timeLimit = 0 /\ (g > 2 => q[g].size = 0))} :
       plan = [t \in Tasks |-> IF t = 1 THEN p ELSE EmptyPlan]

NextGrace ==
  \/ Tick
  \/ taskSteps(1)
  \/ \E s \in SubTasks : subTaskSteps(s)
  \/ abortLookup(1, 1)
  \/ graceCanEnd /\ abortSet(1)
  \/ abortCas(1)

\* The pool runs the worker of the task and the clock goes on; the user run of a subtask
\* may never return.
SpecGrace ==
  /\ InitGrace
  /\ [][NextGrace]_vars
  /\ WF_vars(Tick)
  /\ WF_vars(taskSteps(1))

\* The plan with one group of HappyMembers members, without time limits and markers.
HappyPlan == [g \in GroupIds |->
                IF g = 1 THEN [ignoreErrors |-> FALSE, size |-> HappyMembers,
                               timeLimit |-> 0, abortable |-> FALSE]
                         ELSE EmptyPlan[g]]

\* One task with the one group of HappyPlan.
InitHappy ==
  /\ Constructed({1})
  /\ Plain
  /\ ~abortable[1]
  /\ plan = [t \in Tasks |-> IF t = 1 THEN HappyPlan ELSE EmptyPlan]

\* Nothing fails: the pools take the task and its subtasks, no user run throws, abort
\* and shutdown are not called; a client calls waitForTask once submit has returned.
NextHappy ==
  \/ submitCheck(1)
  \/ submitPut(1)
  \/ submitHandoff(1, FALSE)
  \/ runEntry(1)
  \/ setRunning(1)
  \/ addSubTaskGroup(1)
  \/ runSubTasks(1)
  \/ forGroup(1)
  \/ executeWith(1)
  \/ waitBegin(1)
  \/ poll(1)
  \/ waitEnd(1)
  \/ setSuccess(1)
  \/ complete(1)
  \/ \E s \in SubTasks : subRunEntry(s)
  \/ \E s \in SubTasks : subSetRunning(s)
  \/ \E s \in SubTasks : subTaskRun(s, FALSE)
  \/ \E s \in SubTasks : subComplete(s)
  \/ submitted[1] = "taskUUID" /\ waitForTask(1, FALSE)
  \/ waitForTaskEnds(FALSE)

SpecHappy == InitHappy /\ [][NextHappy]_vars

\* ============================================================== claims
\* The subtasks of group g of task t that were handed to the ExecutorService.
Submitted(t, g) == {s \in subTasks(t, g) : future[s] # "null"}
\* The subtasks of the group that were submitted and not yet removed from the wait.
Outstanding(t, g) == Cardinality(Submitted(t, g)) - numTasksCompleted[t][g]
\* The subtasks of task t whose task.run() threw.
FailedSubTasks(t) == {s \in Members : parentRunnableTask(s) = t /\ future[s] = "excFail"}
\* The wait on group g is over and an error of a member was observed in it.
ErrorObserved(t, g) ==
  /\ Submitted(t, g) # {}
  /\ Outstanding(t, g) = 0
  /\ \E s \in subTasks(t, g) : future[s] \in {"excFail", "excCancel", "cancelled"}

\* The transitions of the claimed graph, read generously: Created -> Running is allowed
\* though it skips Initializing, and the steps to and from the mark State.Abort that
\* abort writes are not judged.
LegalEdge(a, b) ==
  \/ a = b
  \/ a = Created /\ b \in {Initializing, Running, Aborted, Failure}
  \/ a = Initializing /\ b \in {Running, Aborted, Failure}
  \/ a = Running /\ b \in {Success, Failure, Aborted}
  \/ a = Abort
  \/ b = Abort

\* C1: the state of every task and subtask record changes only along Created ->
\* Initializing -> Running -> {Success, Failure, Aborted} (or Created/Initializing ->
\* Aborted or Failure); once Success, Failure or Aborted it never changes.
C1_LegalTransitions ==
  [][/\ \A t \in Tasks : LegalEdge(taskState[t], taskState'[t])
     /\ \A s \in SubTasks : LegalEdge(subTaskState[s], subTaskState'[s])]_vars

\* C2, as claimed: when every failure of a subtask is in a group with ignoreErrors, the
\* task ends in Success and the failing subtasks in Failure.
C2_IgnoredErrorsEndInSuccess ==
  \A t \in Tasks :
    (pc[t] = "done" /\ \A s \in FailedSubTasks(t) : ignoreErrors(t, groupOf(s)))
      => /\ taskState[t] = Success
         /\ \A s \in FailedSubTasks(t) : subTaskState[s] = Failure

\* C2, amended: when subtasks fail, all of them in groups with ignoreErrors, every group
\* is still run to its end, the failing subtasks end in Failure, and runSubTasks throws
\* after the last group, so that the task ends in Failure.
C2_IgnoredErrorsEndInFailure ==
  \A t \in Tasks :
    (/\ pc[t] = "done"
     /\ FailedSubTasks(t) # {}
     /\ \A s \in FailedSubTasks(t) : ignoreErrors(t, groupOf(s)))
      => /\ taskState[t] = Failure
         /\ \A s \in FailedSubTasks(t) : subTaskState[s] = Failure
         /\ \A s \in Members : parentRunnableTask(s) = t => spc[s] = "done"

C2_Witness ==
  \E t \in Tasks :
    /\ pc[t] = "done"
    /\ taskState[t] = Failure
    /\ \E s \in FailedSubTasks(t) : groupOf(s) = 1
    /\ \A s \in FailedSubTasks(t) : ignoreErrors(t, groupOf(s))
    /\ \E s \in Members : groupOf(s) = 2 /\ subTaskState[s] = Success

\* C3: when a member of a group without ignoreErrors throws, runSubTasks throws only
\* after every member of the group has completed: the other members end in Success, the
\* failing one in Failure, and the task in Failure.
C3_WaitDoesNotShortCircuit ==
  \A t \in Tasks :
    (/\ pc[t] \in {"catchFail", "finally", "done"}
     /\ grp[t] \in 1 .. Len(subTaskGroups[t])
     /\ anyEx[t] = "fail"
     /\ ~ignoreErrors(t, grp[t]))
      => /\ \A s \in subTasks(t, grp[t]) :
              /\ spc[s] = "done"
              /\ future[s] \in {"done", "excFail"}
              /\ future[s] = "done" => subTaskState[s] = Success
              /\ future[s] = "excFail" => subTaskState[s] = Failure
         /\ pc[t] = "done" => taskState[t] = Failure

C3_Witness ==
  \E t \in Tasks :
    /\ pc[t] = "done"
    /\ grp[t] \in 1 .. Len(subTaskGroups[t])
    /\ ~ignoreErrors(t, grp[t])
    /\ \E s1, s2 \in subTasks(t, grp[t]) :
         /\ future[s1] = "excFail" /\ subTaskState[s1] = Failure
         /\ future[s2] = "done" /\ subTaskState[s2] = Success
    /\ taskState[t] = Failure

\* C4: after a group without ignoreErrors has propagated an error out of its wait, no
\* subtask of a later group is ever submitted or run: its record stays Created.
C4_NoLaterGroupAfterError ==
  \A t \in Tasks : \A g \in GroupIds :
    (ErrorObserved(t, g) /\ ~ignoreErrors(t, g))
      => \A h \in GroupIds : h > g =>
           \A s \in subTasks(t, h) :
             future[s] = "null" /\ spc[s] = "new" /\ subTaskState[s] = Created

C4_Witness ==
  \E t \in Tasks : \E g, h \in GroupIds :
    /\ pc[t] = "done"
    /\ ErrorObserved(t, g) /\ ~ignoreErrors(t, g)
    /\ h > g
    /\ \E s \in subTasks(t, h) : subTaskState[s] = Created

\* C5: the groups of a task run one after the other: at no time do two groups of a task
\* have subtasks that were submitted and are not yet removed from the wait.
C5_GroupsAreSequential ==
  \A t \in Tasks : Cardinality({g \in GroupIds : Outstanding(t, g) > 0}) <= 1

C5_Witness ==
  \E t \in Tasks : \E g, h \in GroupIds :
    /\ g < h
    /\ Submitted(t, g) # {} /\ Outstanding(t, g) = 0
    /\ Outstanding(t, h) > 0

\* C6: when abort(id) has found the task in the map and marked its record, the task's
\* record ends in Aborted, never in Success or Failure.
C6_AbortedTaskEndsAborted ==
  \A t \in Tasks :
    (pc[t] = "done" /\ \E c \in AbortCallers :
                         target[c] = t /\ result[c] = "record" /\ swapped[c])
      => taskState[t] = Aborted

\* C7, as claimed: abort called twice, one call after the other or both at once, sets the
\* abort time once: once set, the abort time never changes.
C7_AbortTimeSetOnce ==
  [][\A t \in Tasks : abortTime[t] # NoInstant => abortTime'[t] = abortTime[t]]_vars

\* C7, amended: a call of abort that finds the abort time set, as every call does that
\* begins after an earlier call has set it, does not write it: the steps of that call
\* leave every abort time as it is.
C7_ObservedAbortTimeIsKept ==
  [][\A c \in AbortCallers :
       (seen[c] # NoInstant /\ apc'[c] # apc[c]) => abortTime' = abortTime]_vars

C7_Witness ==
  \E c, d \in AbortCallers :
    /\ c # d /\ target[c] = target[d]
    /\ result[c] = "record" /\ seen[c] = NoInstant
    /\ result[d] = "record" /\ seen[d] # NoInstant
    /\ abortTime[target[d]] = seen[d]
    /\ now > seen[d]

\* C8: abort(id) on a task in the map whose class is not abortable throws, and leaves
\* the task as it is: the abort time stays null and the record is not marked.
C8_NotAbortableIsUnchanged ==
  \A c \in AbortCallers :
    (apc[c] # "idle" /\ result[c] # "empty" /\ ~abortable[target[c]])
      => /\ apc[c] = "done"
         /\ result[c] = "NotAbortable"
         /\ abortTime[target[c]] = NoInstant
         /\ taskState[target[c]] # Abort

C8_Witness ==
  \E c \in AbortCallers :
    /\ result[c] = "NotAbortable"
    /\ pc[target[c]] = "done"
    /\ taskState[target[c]] = Success

\* C9: abort(id) for an id that is not in the map returns empty and changes no abort
\* time and no record.
C9_AbortOfAbsentTaskChangesNothing ==
  [][\A c \in AbortCallers :
       (apc[c] = "idle" /\ apc'[c] # "idle" /\ target'[c] \notin runnableTasks)
         => /\ apc'[c] = "done"
            /\ result'[c] = "empty"
            /\ abortTime' = abortTime
            /\ taskState' = taskState
            /\ subTaskState' = subTaskState]_vars

C9_Witness ==
  \E c, d \in AbortCallers :
    /\ result[c] = "empty" /\ pc[target[c]] = "done" /\ abortable[target[c]]
    /\ result[d] = "empty" /\ pc[target[d]] = "absent"

C12_SubmitRethrows ==
  \A t \in Tasks :
    pc[t] = "rejected"
      => /\ t \notin runnableTasks
         /\ taskState[t] = Failure
         /\ submitted[t] # "taskUUID"

\* C13: shutdown seals the map before it sets the abort times, and once it has set
\* them every task in the map has an abort time.
C13_SealBeforeBroadcast ==
  \A c \in ShutdownCallers :
    /\ hpc[c] = "forEach" => sealed
    /\ (~late[c] /\ hpc[c] \in {"waitForEmpty", "done"})
         => /\ sealed
            /\ \A t \in runnableTasks : abortTime[t] # NoInstant

C13_Witness ==
  \E c \in ShutdownCallers :
    /\ ~late[c] /\ hpc[c] = "waitForEmpty"
    /\ runnableTasks = {1, 2}
    /\ \E t \in runnableTasks : pc[t] = "handoff"

\* C14: only the first call of shutdown seals the map and sets abort times: the steps
\* of a later call change neither, and a later call returns true when the map is empty.
C14_ShutdownIsIdempotent ==
  [][/\ \A c \in ShutdownCallers :
          (late[c] /\ hpc'[c] # hpc[c])
            => /\ sealed' = sealed
               /\ abortTime' = abortTime
               /\ wrote' = wrote
               /\ runnableTasks = {} => hres'[c] = "true"
     /\ \A c \in wrote' : ~late'[c]]_vars

C14_Witness ==
  \E c, d \in ShutdownCallers :
    /\ ~late[c] /\ wrote = {c} /\ hpc[c] = "done"
    /\ late[d] /\ hres[d] = "true"
    /\ \E t \in Tasks : abortTime[t] # NoInstant

\* C16: a waitForTask that ends with the TimeoutException only unblocks its caller: no
\* abort time, no state of a record, no future and no entry of the map changes.
C16_WaitTimeoutChangesNothing ==
  [][(wres = "none" /\ wres' = "TimeoutException")
       => /\ abortTime' = abortTime
          /\ taskState' = taskState
          /\ subTaskState' = subTaskState
          /\ future' = future
          /\ taskFuture' = taskFuture
          /\ runnableTasks' = runnableTasks]_vars

C16_Witness ==
  /\ wres = "TimeoutException"
  /\ pc[wtarget] = "done"
  /\ taskState[wtarget] = Success
  /\ \E s \in Members : parentRunnableTask(s) = wtarget /\ subTaskState[s] = Success

\* C15: when shutdown has sealed the map and set the abort times, every task in the map
\* leaves the map in the end, its record Success, Failure or Aborted, also when the body
\* of a subtask never returns; and shutdown returns true exactly when it finds the map
\* empty, false when it gives up (the timeout, or an interrupt).
C15_ShutdownDrains ==
  /\ (hpc[1] = "waitForEmpty" /\ ~late[1]) ~> (runnableTasks = {})
  /\ [](\A t \in Tasks : pc[t] = "done" => taskState[t] \in {Success, Failure, Aborted})
  /\ [][\A c \in ShutdownCallers :
          (hres[c] = "none" /\ hres'[c] # "none")
            => (hres'[c] = "true" <=> runnableTasks = {})]_vars

C15_Witness ==
  /\ hres[1] = "true"
  /\ taskState[1] = Aborted /\ pc[1] = "done"
  /\ taskState[2] = Success /\ pc[2] = "done"
  /\ \E s \in Members : spc[s] = "body" /\ future[s] = "cancelled"

\* The subtask is in the list of the wait of its task and its future has not completed.
StillWaitedFor(s) ==
  /\ pc[parentRunnableTask(s)] = "wait"
  /\ \E i \in 1 .. Len(runnableSubTasks[parentRunnableTask(s)]) :
       runnableSubTasks[parentRunnableTask(s)][i] = s
  /\ future[s] = "pending"

\* More than defaultAbortTaskTimeout has passed since the abort time of the task.
GraceElapsed(t) == abortTime[t] # NoInstant /\ now - abortTime[t] > defaultAbortTaskTimeout

\* C17: the wait cancels the future of a subtask only when the subtask has a time limit
\* and the time since the wait began is longer, or when the abort time of the task is
\* set and more than defaultAbortTaskTimeout has passed since.
C17_CancelOnlyAfterLimitOrGrace ==
  [][\A s \in SubTasks :
       (future[s] = "pending" /\ future'[s] = "cancelled")
         => \/ timeLimit(s) # 0 /\ now - waitStartTime[parentRunnableTask(s)] > timeLimit(s)
            \/ GraceElapsed(parentRunnableTask(s))]_vars

C17_Witness ==
  \E s \in Members :
    /\ future[s] = "cancelled"
    /\ isSubTaskAbortable(s)
    /\ timeLimit(s) = 0
    /\ spc[s] = "body"
    /\ pc[parentRunnableTask(s)] = "wait"

C19_TimeLimitFailsTheTask ==
  /\ [][\A s \in SubTasks :
          (/\ StillWaitedFor(s)
           /\ timeLimitExceeded(parentRunnableTask(s), s)
           /\ runnableSubTasks'[parentRunnableTask(s)] # runnableSubTasks[parentRunnableTask(s)])
            => /\ future'[s] = "cancelled"
               /\ subTaskState'[s] = Aborted
               /\ anyEx'[parentRunnableTask(s)] = "fail"]_vars
  /\ [](\A s \in Members :
          (/\ pc[parentRunnableTask(s)] = "done"
           /\ abortTime[parentRunnableTask(s)] = NoInstant
           /\ future[s] = "cancelled"
           /\ ~ignoreErrors(parentRunnableTask(s), groupOf(s)))
            => taskState[parentRunnableTask(s)] = Failure)

C19_Witness ==
  \E s \in Members :
    /\ pc[parentRunnableTask(s)] = "done"
    /\ taskState[parentRunnableTask(s)] = Failure
    /\ abortTime[parentRunnableTask(s)] = NoInstant
    /\ future[s] = "cancelled"
    /\ timeLimit(s) # 0
    /\ ~ignoreErrors(parentRunnableTask(s), groupOf(s))

\* C20: a task is in the map from the put of its submit until its run ends or the
\* ExecutorService refuses it, and on every way out of run (Success, Failure, Aborted,
\* also when the abort came before the body began) it is removed from the map.
C20_InMapWhileRunning ==
  \A t \in Tasks :
    /\ pc[t] \in {"absent", "new", "put", "refused", "rejected", "done"} => t \notin runnableTasks
    /\ pc[t] \notin {"absent", "new", "put", "refused", "rejected", "done"} => t \in runnableTasks
    /\ pc[t] = "done" => taskState[t] \in {Success, Failure, Aborted}

C20_Witness ==
  \E t \in Tasks :
    /\ pc[t] = "done"
    /\ taskState[t] = Aborted
    /\ subTaskGroups[t] = <<>>
    /\ t \notin runnableTasks

\* C21, as claimed: no record is Success, Failure or Aborted while its task is in the map.
C21_RemovedBeforeTerminal ==
  \A t \in Tasks : taskState[t] \in {Success, Failure, Aborted} => t \notin runnableTasks

\* C21, amended: the order is the reverse. The run of a task writes Success, Failure or
\* Aborted to the record and only then, in its finally block, takes the task out of the
\* map: a task that leaves the map at the end of its run has a terminal record, and so has
\* every task whose run has ended.
C21_TerminalBeforeRemoved ==
  /\ [][\A t \in Tasks :
          (t \in runnableTasks /\ t \notin runnableTasks' /\ pc'[t] # "rejected")
            => taskState[t] \in {Success, Failure, Aborted}]_vars
  /\ [](\A t \in Tasks : pc[t] = "done" => /\ taskState[t] \in {Success, Failure, Aborted}
                                           /\ t \notin runnableTasks)

C21_Witness ==
  \E t \in Tasks :
    /\ pc[t] = "done"
    /\ taskState[t] = Success
    /\ t \notin runnableTasks
    /\ \E s \in Members : parentRunnableTask(s) = t /\ subTaskState[s] = Success

\* The groups attached to task t that have members.
AttachedGroups(t) ==
  {subTaskGroups[t][i] : i \in {j \in 1 .. Len(subTaskGroups[t]) :
                                  getSubTaskCount(t, subTaskGroups[t][j]) > 0}}

\* C22: when the record of a task ends in Success, every member of every attached group
\* has a record in Success, or in Failure in a group with ignoreErrors.
C22_SuccessMeansGroupsSucceeded ==
  \A t \in Tasks :
    (pc[t] = "done" /\ taskState[t] = Success)
      => \A g \in AttachedGroups(t) : \A s \in subTasks(t, g) :
           \/ subTaskState[s] = Success
           \/ subTaskState[s] = Failure /\ ignoreErrors(t, g)

C22_Witness ==
  \E t \in Tasks :
    /\ pc[t] = "done"
    /\ taskState[t] = Success
    /\ Cardinality(AttachedGroups(t)) >= 2
    /\ \E g \in AttachedGroups(t) : getSubTaskCount(t, g) >= 2

\* C23: when runSubTasks leaves a group, for the next group or for its end, the counter
\* of the group equals the number of members the group was attached with.
C23_AllMembersCounted ==
  [][\A t \in Tasks :
       (pc[t] = "wait" /\ pc'[t] # "wait")
         => numTasksCompleted[t][subTaskGroups[t][grp[t]]]
              = getSubTaskCount(t, subTaskGroups[t][grp[t]])]_vars

\* The record x has the value v, and no other, in the Task Store field `field`.
Holds(field, x, v) == \A e \in field : e[1] = x => e[2] = v

\* C24: after addSubTaskGroup calls without a position argument and without reset, the
\* i-th attached group, empty groups counted, has position i - 1 (the first has 0): that
\* position and the id of the owning task are in the record of each of its members; the
\* position in the record of a top-level task is -1.
C24_PositionsFollowAttachment ==
  \A t \in Tasks :
    /\ subTaskPosition[t] = Len(subTaskGroups[t])
    /\ \A i \in 1 .. Len(subTaskGroups[t]) : \A s \in subTasks(t, subTaskGroups[t][i]) :
         /\ <<s, i - 1>> \in position /\ Holds(position, s, i - 1)
         /\ <<s, t>> \in parentUuid /\ Holds(parentUuid, s, t)
    /\ pc[t] # "absent" => <<taskId(t), -1>> \in position /\ Holds(position, taskId(t), -1)

C24_Witness ==
  \E t \in Tasks :
    /\ Len(subTaskGroups[t]) >= 2
    /\ getSubTaskCount(t, subTaskGroups[t][1]) = 0
    /\ \E s \in subTasks(t, subTaskGroups[t][2]) : <<s, 1>> \in position /\ <<s, t>> \in parentUuid

\* The listener of the owning task was called with <<what, x, thr>>.
Called(what, x, thr) ==
  \E i \in 1 .. Len(calls[x[1]]) : calls[x[1]][i] = <<what, x, thr>>

\* The positions of a worker between setTaskState(Running) and the end of the user run.
InUserRun == {"setRunning", "body", "forGroup", "submit", "waitBegin", "wait",
              "setSuccess", "replay", "finallyOk"}

\* The listener set on the owning task throws CancellationException from beforeTask for
\* record x.
CancelsBefore(x) ==
  /\ taskExecutionListener[x[1]].set
  /\ taskExecutionListener[x[1]].does = "beforeCancel"
  /\ taskExecutionListener[x[1]].on = x

\* C25: when beforeTask throws CancellationException for a task or a subtask, the user
\* run of that task is not called, its record is never Running (or Success), and when
\* its run has ended the record is Aborted.
C25_BeforeCancelSkipsTheRun ==
  /\ \A t \in Tasks :
       (pc[t] # "absent" /\ CancelsBefore(taskId(t)))
         => /\ pc[t] \notin InUserRun
            /\ taskState[t] \notin {Running, Success}
            /\ pc[t] = "done" => taskState[t] = Aborted
  /\ \A s \in Members :
       CancelsBefore(s)
         => /\ spc[s] \notin InUserRun
            /\ subTaskState[s] \notin {Running, Success}
            /\ spc[s] = "done" => subTaskState[s] = Aborted

C25_Witness ==
  \E s \in Members :
    /\ CancelsBefore(s)
    /\ Called("before", s, "null")
    /\ abortTime[parentRunnableTask(s)] = NoInstant
    /\ spc[s] = "done"
    /\ subTaskState[s] = Aborted
    /\ pc[parentRunnableTask(s)] = "done"
    /\ taskState[parentRunnableTask(s)] = Aborted

\* C26: whenever the worker-side run of a task or subtask has ended, afterTask was
\* called for it with the throwable of the run (null after a success) and its
\* task.terminate() was called.
C26_FinalizeOnAllExits ==
  /\ \A t \in Tasks :
       pc[t] = "done"
         => /\ taskId(t) \in terminated
            /\ getTaskExecutionLister(taskId(t)).set
                 => Called("after", taskId(t), throwableOf(taskState[t]))
  /\ \A s \in Members :
       spc[s] = "done"
         => /\ s \in terminated
            /\ getTaskExecutionLister(s).set
                 => \E thr \in {"null", "fail", "cancel"} : Called("after", s, thr)

\* C27: an exception of a listener callback (other than the CancellationException of
\* beforeTask) changes the state of no record (a record becomes Failure only when the
\* user run threw or the pool refused the subtask), keeps no terminate hook from being
\* called, and leaves no member in the wait that runSubTasks has left.
C27_ListenerExceptionsAreContained ==
  /\ [][/\ \A s \in SubTasks :
             (subTaskState'[s] = Failure /\ subTaskState[s] # Failure)
               => spc[s] = "body" \/ s \in rejectedByPool
        /\ \A t \in Tasks :
             (taskState'[t] = Failure /\ taskState[t] # Failure)
               => \/ pc[t] = "submitFailed"
                  \/ pc[t] = "catchFail" /\ beforeTask(taskId(t)) # "throws"
        /\ \A t \in Tasks :
             (pc[t] = "wait" /\ pc'[t] # "wait") => runnableSubTasks[t] = <<>>]_vars
  /\ [](\A s \in Members : spc[s] = "done" => s \in terminated)
  /\ [](\A t \in Tasks : pc[t] = "done" => taskId(t) \in terminated)

\* C30: a worker that finds the abort time of the owning task set at the entry of run
\* calls neither beforeTask nor the user run: it goes to the catch block of the
\* CancellationException, which writes Aborted, and the record is never Running
\* afterwards; so a subtask whose worker starts after abort never runs its body.
C30_AbortedAtEntryNeverRuns ==
  /\ [][/\ \A s \in SubTasks :
             /\ (spc[s] = "queued" /\ spc'[s] # "queued"
                   /\ abortTime[parentRunnableTask(s)] # NoInstant)
                  => spc'[s] = "catchCancel" /\ calls' = calls
             /\ (spc[s] = "catchCancel" /\ spc'[s] # "catchCancel")
                  => spc'[s] = "finallyCancel" /\ subTaskState'[s] = Aborted
             /\ spc[s] \in {"catchCancel", "finallyCancel"}
                  => subTaskState'[s] # Running /\ spc'[s] \notin InUserRun
        /\ \A t \in Tasks :
             /\ (pc[t] = "queued" /\ pc'[t] # "queued" /\ abortTime[t] # NoInstant)
                  => pc'[t] = "catchCancel" /\ calls' = calls
             /\ (pc[t] = "catchCancel" /\ pc'[t] # "catchCancel")
                  => pc'[t] = "finally" /\ taskState'[t] = Aborted]_vars
  /\ [](\A s \in Members : spc[s] = "finallyCancel" => subTaskState[s] = Aborted)

C30_Witness ==
  \E s \in Members :
    /\ groupOf(s) = 2
    /\ getTaskExecutionLister(s).set
    /\ getTaskExecutionLister(s).does = "quiet"
    /\ abortTime[parentRunnableTask(s)] # NoInstant
    /\ spc[s] = "done"
    /\ subTaskState[s] = Aborted
    /\ ~Called("before", s, "null")
    /\ Called("after", s, "cancel")
    /\ \E r \in Members : groupOf(r) = 1 /\ subTaskState[r] = Success

\* The listener calls of task t for its subtasks in the first runSubTasks (the first
\* call of the log is beforeTask for the task itself) and those since reset.
FirstRun(t) == SubSeq(calls[t], 2, callsAtReset[t])
SecondRun(t) == SubSeq(calls[t], callsAtReset[t] + 1, Len(calls[t]))

\* The callbacks of a log and the records they were called for, without the throwables.
CallbacksOf(log) == [i \in 1 .. Len(log) |-> <<log[i][1], log[i][2]>>]

\* C28: reset() leaves the group queue empty and the position counter at 0; the first
\* group attached after it has position 0, and only members of groups attached since
\* reset are submitted by the runSubTasks that follows. When the body attaches the same
\* groups (of at most one member each) again and the second runSubTasks has returned,
\* the listener was called with the same callbacks for the same subtasks in the same
\* order as in the first run, and with the same throwables too when no subtask failed.
C28_ResetReplaysTheRun ==
  /\ [][\A t \in Tasks :
         /\ replayed'[t] # replayed[t]
              => subTaskGroups'[t] = <<>> /\ subTaskPosition'[t] = 0
         /\ (replayed[t] >= 1 /\ replayed'[t] = replayed[t]
             /\ subTaskGroups[t] = <<>> /\ subTaskGroups'[t] # <<>>)
              => \A s \in subTasks(t, subTaskGroups'[t][1]) :
                   <<s, 0>> \in position' /\ \A e \in position' : e[1] = s => e[2] = 0
         /\ \A s \in SubTasks :
              (s[1] = t /\ replayed[t] >= 1 /\ future[s] = "null" /\ future'[s] # "null")
                => \E i \in 1 .. Len(subTaskGroups[t]) : subTaskGroups[t][i] = s[2]]_vars
  /\ [](\A t \in Tasks :
         (pc[t] = "setSuccess" /\ replayed[t] = 1)
           => /\ CallbacksOf(SecondRun(t)) = CallbacksOf(FirstRun(t))
              /\ stateMetric[Failure] = 0 => SecondRun(t) = FirstRun(t))

C28_Witness ==
  /\ pc[1] = "setSuccess"
  /\ replayed[1] = 1
  /\ Len(FirstRun(1)) >= 6
  /\ SecondRun(1) = FirstRun(1)
  /\ <<<<1, 1, 1>>, 0>> \in position

\* waitForTask(1) has returned without an exception.
WaitedFor == wpc = "done" /\ wtarget = 1 /\ wres = "returned"

\* The records and the counter of the happy path after waitForTask, and the observations
\* of the execution metric, all with the label Success.
HappyRecords ==
  /\ taskState[1] = Success
  /\ \A s \in subTasks(1, 1) : subTaskState[s] = Success
  /\ numTasksCompleted[1][1] = HappyMembers
  /\ stateMetric[Success] = HappyMembers + 1
  /\ \A l \in State \ {Success} : stateMetric[l] = 0

\* C29, as stated: after waitForTask for a task with one group of three subtasks and no
\* failure, the records are Success, the counter of the group is 3, and the metrics hold
\* one observation of the waiting time and four of the execution time, labelled Success.
C29_OneWaitObservation ==
  WaitedFor => HappyRecords /\ waitMetric = 1

\* C29, amended: ... and the metrics hold four observations of the waiting time (one at
\* the entry of the run of the task and of each subtask) and four of the execution time.
C29_WaitObservationPerRun ==
  WaitedFor => HappyRecords /\ waitMetric = HappyMembers + 1

C29_Witness ==
  /\ WaitedFor
  /\ pc[1] = "done"
  /\ Cardinality(subTasks(1, 1)) = HappyMembers
  /\ \A s \in subTasks(1, 1) : spc[s] = "done"

\* C31: when the pool refuses a member of a group, that member's record is Failure, its
\* listener has had afterTask with the exception, and by the time the wait of the group
\* begins every other member of the group has been handed to the pool.
C31_SubmissionContinues ==
  \A t \in Tasks :
    pc[t] = "wait"
      => \A s \in subTasks(t, subTaskGroups[t][grp[t]]) :
           /\ s \in rejectedByPool
                => /\ subTaskState[s] = Failure
                   /\ getTaskExecutionLister(s).set => Called("after", s, "fail")
           /\ s \notin rejectedByPool => future[s] # "null"

\* executorService.submit threw for a member of a group of task t: the member has no
\* future and its record is Failure.
SubmissionThrew(t) ==
  \E s \in rejectedByPool : s[1] = t /\ future[s] = "null" /\ subTaskState[s] = Failure

\* The wait of a group of task t has found a member whose run ended with a
\* CancellationException.
CancellationSeen(t) == \E s \in SubTasks : s[1] = t /\ future[s] = "excCancel"

\* C32, as stated: when the submission of a subtask threw, runSubTasks ends with an
\* exception and the record of the task ends in Failure, whether the group ignores
\* errors or not and whatever became of the members submitted before.
C32_SubmissionErrorEndsInFailure ==
  \A t \in Tasks :
    SubmissionThrew(t)
      => /\ pc[t] \notin {"setSuccess", "finallyOk"}
         /\ pc[t] = "done" => taskState[t] = Failure

\* C32, amended: when the submission of a subtask threw, runSubTasks ends with an
\* exception, whether the group ignores errors or not; the record of the task ends in
\* Failure or in Aborted, and in Aborted only when the wait of that group or of a later
\* group found a member whose run ended with a CancellationException (which the wait
\* throws on in place of the exception of the submission).
C32_SubmissionErrorEndsInError ==
  \A t \in Tasks :
    SubmissionThrew(t)
      => /\ pc[t] \notin {"setSuccess", "finallyOk"}
         /\ pc[t] = "done"
              => /\ taskState[t] \in {Failure, Aborted}
                 /\ taskState[t] = Aborted => CancellationSeen(t)

C32_Witness ==
  \E t \in Tasks :
    /\ pc[t] = "done"
    /\ SubmissionThrew(t)
    /\ taskState[t] = Failure
    /\ \E s \in rejectedByPool : ignoreErrors(t, groupOf(s)) /\ s[3] = 2
    /\ \E s \in SubTasks : s[1] = t /\ subTaskState[s] = Success

\* A member of group g of task t ended its run with an exception that is not a
\* cancellation.
FailedIn(t, g) == \E s \in subTasks(t, g) : future[s] = "excFail"

\* C33: when the wait of a group with ignoreErrors rethrows an error that is not a
\* cancellation, the for loop of runSubTasks goes on to the next group; when the task
\* has ended, every later non-empty group that no failing group without ignoreErrors
\* precedes has had all its members submitted and waited for; and a member of a group is
\* submitted only when the members of all earlier groups were waited for.
C33_IgnoredErrorContinues ==
  /\ [][\A t \in Tasks :
         (pc[t] = "wait" /\ pc'[t] # "wait" /\ exceptionOf(t) = "fail"
          /\ ignoreErrors(t, subTaskGroups[t][grp[t]]))
           => pc'[t] = "forGroup" /\ grp'[t] = grp[t] + 1]_vars
  /\ [](\A t \in Tasks : \A g, h \in GroupIds :
         (/\ pc[t] = "done"
          /\ g < h
          /\ ignoreErrors(t, g) /\ FailedIn(t, g)
          /\ \A k \in GroupIds : (g < k /\ k < h) => (ignoreErrors(t, k) \/ ~FailedIn(t, k)))
           => /\ \A s \in subTasks(t, h) : future[s] # "null"
              /\ numTasksCompleted[t][h] = getSubTaskCount(t, h))
  /\ [](\A s \in SubTasks :
         future[s] # "null"
           => \A k \in GroupIds :
                k < groupOf(s) => numTasksCompleted[s[1]][k] = getSubTaskCount(s[1], k))

C33_Witness ==
  \E t \in Tasks : \E g, h \in GroupIds :
    /\ pc[t] = "done"
    /\ g < h
    /\ ignoreErrors(t, g) /\ FailedIn(t, g)
    /\ getSubTaskCount(t, h) > 0
    /\ numTasksCompleted[t][h] = getSubTaskCount(t, h)
    /\ taskState[t] = Failure

\* The wait loop has cancelled the future of s: future.cancel(true) in the time-limit
\* branch or in the abort branch of catch (TimeoutException e).
CancelledByWait(s) == future[s] = "cancelled"

\* C34: a subtask whose future the wait loop cancelled has the record Aborted from then
\* on: its worker, which future.cancel(true) interrupts but does not stop, writes neither
\* Running nor Success nor Failure to it afterwards.
C34_CancelledStaysAborted ==
  \A s \in SubTasks : CancelledByWait(s) => subTaskState[s] = Aborted

\* C35: the for loop of runSubTasks passes over a group without members and changes
\* nothing but its own index: nothing is submitted, no record is written and no listener
\* is called. The empty group has taken a position when it was attached: the members of
\* the group attached after it have the next position, and the counter of the task
\* counts the empty groups too.
C35_EmptyGroupKeepsItsPosition ==
  /\ [][\A t \in Tasks :
         (/\ pc[t] = "forGroup"
          /\ grp[t] <= Len(subTaskGroups[t])
          /\ getSubTaskCount(t, subTaskGroups[t][grp[t]]) = 0
          /\ grp'[t] # grp[t])
           => /\ grp'[t] = grp[t] + 1
              /\ pc'[t] = "forGroup"
              /\ UNCHANGED <<calls, future, subTaskState, spc, runnableSubTasks,
                             numTasksCompleted, position, subTaskPosition, anyRe>>]_vars
  /\ [](\A t \in Tasks :
         /\ subTaskPosition[t] = Len(subTaskGroups[t])
         /\ \A i \in 2 .. Len(subTaskGroups[t]) :
              getSubTaskCount(t, subTaskGroups[t][i - 1]) = 0
                => \A s \in subTasks(t, subTaskGroups[t][i]) :
                     <<s, i - 1>> \in position /\ Holds(position, s, i - 1))

C35_Witness ==
  /\ pc[1] = "done"
  /\ Len(subTaskGroups[1]) >= 2
  /\ getSubTaskCount(1, subTaskGroups[1][1]) = 0
  /\ <<<<1, subTaskGroups[1][2], 1>>, 1>> \in position
  /\ subTaskState[<<1, subTaskGroups[1][2], 1>>] = Success
  /\ \A i \in 1 .. Len(calls[1]) : calls[1][i][2] \in {taskId(1), <<1, subTaskGroups[1][2], 1>>}

\* C36: when the worker of a subtask has left the finally block of run, the three
\* Instants of the subtask are set and in order: taskScheduledTime (taken by executeWith
\* before the submission) is not after taskStartTime (taken at the entry of run), which
\* is not after taskCompletionTime (taken in the finally block). The clock of the model
\* never goes back.
C36_InstantsInOrder ==
  \A s \in SubTasks :
    spc[s] = "done"
      => /\ taskScheduledTime[s] # NoInstant
         /\ taskScheduledTime[s] <= taskStartTime[s]
         /\ taskStartTime[s] <= taskCompletionTime[s]

C36_Witness ==
  \E s \in SubTasks :
    /\ spc[s] = "done"
    /\ taskScheduledTime[s] < taskStartTime[s]
    /\ taskStartTime[s] < taskCompletionTime[s]

\* The wait of group g of task t is over and has removed a member whose run ended with
\* a CancellationException.
CancellationObserved(t, g) ==
  /\ Submitted(t, g) # {}
  /\ Outstanding(t, g) = 0
  /\ \E s \in subTasks(t, g) : future[s] = "excCancel"

\* C37: when the wait of a group has observed a cancellation, runSubTasks throws a
\* CancellationException whether the group ignores errors or not: no member of a later
\* group is submitted, and the record of the task ends in Aborted.
C37_CancellationIsNeverAbsorbed ==
  \A t \in Tasks : \A g \in GroupIds :
    CancellationObserved(t, g)
      => /\ \A h \in GroupIds : h > g => \A s \in subTasks(t, h) : future[s] = "null"
         /\ pc[t] = "done" => taskState[t] = Aborted

\* The member of group g of task t that the wait removed last with an error: the record
\* of the last call of afterTask with a throwable for a member of the group
\* (removeCompletedSubTask calls afterTask after the worker of the member has called it).
LastRemovedWithError(t, g) ==
  LET at == {i \in 1 .. Len(calls[t]) :
               calls[t][i][2] \in subTasks(t, g) /\ calls[t][i][3] # "null"}
      last == CHOOSE i \in at : \A j \in at : j <= i
  IN  calls[t][last][2]

\* C38: every member that the wait removes with an error overwrites anyEx, so the wait
\* of a group throws the error of the member it removed last. For a group without
\* ignoreErrors in which one member was cancelled and another failed, the record of the
\* task ends in Aborted when a cancelled member was the last one removed with an error
\* and in Failure when a failed one was.
C38_LastErrorWins ==
  /\ [][\A t \in Tasks :
         (pc[t] = "wait" /\ runnableSubTasks[t] # <<>>
          /\ Len(runnableSubTasks'[t]) < Len(runnableSubTasks[t]))
           => LET s == runnableSubTasks[t][iter[t]]
              IN  /\ future[s] = "excCancel" => anyEx'[t] = "cancel"
                  /\ future[s] = "excFail" => anyEx'[t] = "fail"]_vars
  /\ [](\A t \in Tasks : \A g \in GroupIds :
         (/\ pc[t] = "done"
          /\ ~ignoreErrors(t, g)
          /\ \E s \in subTasks(t, g) : future[s] = "excCancel"
          /\ \E s \in subTasks(t, g) : future[s] = "excFail")
           => taskState[t] = (IF future[LastRemovedWithError(t, g)] = "excCancel"
                                THEN Aborted ELSE Failure))

C38_Witness ==
  \E t \in Tasks : \E g \in GroupIds :
    /\ pc[t] = "done"
    /\ ~ignoreErrors(t, g)
    /\ \E s \in subTasks(t, g) : future[s] = "excCancel"
    /\ \E s \in subTasks(t, g) : future[s] = "excFail"
    /\ future[LastRemovedWithError(t, g)] = "excCancel"
    /\ LastRemovedWithError(t, g)[3] = 1
    /\ taskState[t] = Aborted

\* C39: the abort time of a task, once it is set, is never changed: neither by a later
\* call of abort nor by a shutdown that begins afterwards.
C39_AbortTimeIsWrittenOnce ==
  [][\A t \in Tasks : abortTime[t] # NoInstant => abortTime'[t] = abortTime[t]]_vars

\* C40: with skipSubTaskAbortableCheck true, a task whose abort time is set leaves the
\* live-tasks map in the end, also when the user run of a subtask never returns: the wait
\* cancels the member once the abort timeout has passed, runSubTasks throws and the run
\* of the task ends. Without an abort time, a member without a time limit whose future
\* has not completed stays in the wait, and the wait does not return.
C40_AbortEndsTheWait ==
  /\ \A t \in Tasks : (abortTime[t] # NoInstant) ~> (t \notin runnableTasks)
  /\ [][\A s \in SubTasks :
         (/\ StillWaitedFor(s)
          /\ abortTime[parentRunnableTask(s)] = NoInstant
          /\ timeLimit(s) = 0)
           => /\ pc'[parentRunnableTask(s)] = "wait"
              /\ \E i \in 1 .. Len(runnableSubTasks'[parentRunnableTask(s)]) :
                   runnableSubTasks'[parentRunnableTask(s)][i] = s]_vars

C40_Witness ==
  \E s \in Members :
    /\ ~isSubTaskAbortable(s)
    /\ spc[s] = "body"
    /\ future[s] = "cancelled"
    /\ GraceElapsed(parentRunnableTask(s))
    /\ pc[parentRunnableTask(s)] = "done"
    /\ parentRunnableTask(s) \notin runnableTasks

====
